---------------------------- MODULE Spec2Model ----------------------------
(***************************************************************************)
(* Model of the 3dsky organizer (src/sky_organizer_gui.py):                *)
(*   - process_files / worker / process_single_file: the threaded          *)
(*     classification-and-placement run (specification Spec);              *)
(*   - fix_duplicates: the duplicate resolver (specification SpecFD).      *)
(* File names, file ids and category titles are sequences of one-character *)
(* strings, so that the regular expressions and the path functions of the  *)
(* code are computed character by character.                               *)
(***************************************************************************)
EXTENDS Integers, Sequences, FiniteSets, TLC

(***************************************************************************)
(* Bounds of the model.                                                    *)
(***************************************************************************)
MaxFiles == 3
MaxWorkers == 2
MaxDupFiles == 3

(***************************************************************************)
(* Characters and strings.                                                 *)
(***************************************************************************)
\* Python's None, told apart from every string of characters.
None == <<"None">>

IsDigit(c) == c \in {"0", "1", "2", "3", "4", "5", "6", "7", "8", "9"}

IsHex(c) == IsDigit(c) \/ c \in {"a", "b", "c", "d", "e", "f"}

IsSpace(c) == c = " "

\* str.lower(), on the letters the model's names are made of.
LowerChar(c) ==
    CASE c = "Z" -> "z"
      [] c = "I" -> "i"
      [] c = "P" -> "p"
      [] c = "R" -> "r"
      [] c = "A" -> "a"
      [] c = "N" -> "n"
      [] c = "G" -> "g"
      [] c = "J" -> "j"
      [] OTHER -> c

Lower(s) == [i \in 1..Len(s) |-> LowerChar(s[i])]

EndsWith(s, suf) ==
    /\ Len(suf) <= Len(s)
    /\ SubSeq(s, Len(s) - Len(suf) + 1, Len(s)) = suf

\* os.path.splitext: the extension starts at the last dot, unless that dot
\* has only dots before it.
LastDot(s) ==
    LET ds == {i \in 1..Len(s) : s[i] = "."}
    IN  IF ds = {} THEN 0 ELSE CHOOSE i \in ds : \A j \in ds : j <= i

splitext(s) ==
    LET d == LastDot(s)
    IN  IF d > 0 /\ \E j \in 1..(d - 1) : s[j] # "."
        THEN <<SubSeq(s, 1, d - 1), SubSeq(s, d, Len(s))>>
        ELSE <<s, <<>>>>

ArchiveExts ==
    { <<".", "z", "i", "p">>, <<".", "r", "a", "r">>, <<".", "7", "z">> }

\* f.lower().endswith((".zip", ".rar", ".7z"))
IsCompressed(f) == \E e \in ArchiveExts : EndsWith(Lower(f), e)

\* re.match(r"^\d+\.[a-f0-9]+$", base_name)
MatchesFileId(b) ==
    \E k \in 1..Len(b) :
        /\ \A i \in 1..k : IsDigit(b[i])
        /\ k + 1 <= Len(b)
        /\ b[k + 1] = "."
        /\ k + 2 <= Len(b)
        /\ \A i \in (k + 2)..Len(b) : IsHex(b[i])

extract_file_id(filename) ==
    LET base_name == splitext(filename)[1]
    IN  IF MatchesFileId(base_name) THEN base_name ELSE None


(***************************************************************************)
(* Names used by the threaded run.                                         *)
(***************************************************************************)
SummaryName ==
    <<"f", "o", "l", "d", "e", "r", "_", "s", "u", "m", "m", "a", "r", "y",
      ".", "j", "s", "o", "n">>

NotFoundLog ==
    <<"n", "o", "t", "_", "f", "o", "u", "n", "d", "_", "m", "o", "d", "e",
      "l", "s", ".", "j", "s", "o", "n">>

\* Files that the source directory of a run may hold.
SourcePool ==
    { <<"1", ".", "a", ".", "z", "i", "p">>,
      <<"1", ".", "a", ".", "R", "A", "R">>,
      <<"x", ".", "z", "i", "p">>,
      <<"1", ".", "a", ".", "j", "p", "g">> }

\* Category titles the lookup service may answer with; None is a null title.
ParentTitles == { <<"A", "?">>, <<"?">> }

Titles == { <<"A">>, None }

\* A key the answer does not hold.
Absent == <<"Absent">>

\* The first model of the service's answer, as far as the code reads it.
LookupResponses ==
    [kind : {"exception", "no_models"}]
    \cup [kind : {"model"},
          category_parent : ParentTitles \cup {Absent},
          category : Titles \cup {Absent},
          image : BOOLEAN]

\* The root output tree (<dest>/3ds_models) a run may start with.
OldArchive ==
    [dir |-> << <<"A">> >>, name |-> <<"1", ".", "a", ".", "z", "i", "p">>,
     data |-> [kind |-> "archive", from |-> "old"]]

VARIABLES
    srcExists,          \* the source directory exists
    srcFiles,           \* names of the files in the source directory
    destExists,         \* the destination directory exists
    rootExists,         \* models_root (<dest>/3ds_models) exists
    destDirs,           \* directories under models_root (paths; <<>> is the root)
    destFiles,          \* files under models_root: [dir, name, data]
    max_workers,
    compressed_files,
    total_files,
    processing_queue,
    threads,            \* worker threads that were started
    mainPc,             \* position of process_files
    joined,             \* number of threads already joined
    wpc,                \* position of each worker
    wfile,              \* the filename each worker holds
    wtmp,               \* the counter value a worker loaded
    wdetails,           \* the details get_model_details returned to a worker
    wdest,              \* the destination folder of a worker's task
    enqueued,           \* number of queue entries process_files has put
    processed_count,
    counter_lock,
    not_found_files,    \* the failure ledger: a set of [key, reason]
    calls,              \* history: calls of process_single_file per filename
    handed,             \* history: [file, count] for every current_count
    moved,              \* history: filenames whose move succeeded
    rootSummaryLog,     \* history: recomputations of the root summary
    ledgerLog,          \* history: writes of not_found_models.json
    raised,             \* history: filenames whose task raised in the worker
    ledgerStepDone      \* history: process_files is past the ledger step

fsVars == <<srcExists, srcFiles, destExists, rootExists, destDirs, destFiles>>

mainVars ==
    <<max_workers, compressed_files, total_files, threads, mainPc, joined,
      enqueued>>

workerVars == <<wpc, wfile, wtmp, wdetails, wdest>>

counterVars == <<processed_count, counter_lock>>

histVars ==
    <<calls, handed, moved, rootSummaryLog, ledgerLog, raised, ledgerStepDone>>

pfVars ==
    <<fsVars, mainVars, workerVars, counterVars, histVars, processing_queue,
      not_found_files>>

\* The state of fix_duplicates.
VARIABLES
    posix,          \* os.rename replaces an existing target (POSIX) or raises
    fdFiles,        \* files under the source directory: [dir, name, size, orig]
    fdPc,           \* position of fix_duplicates
    fdGroups,       \* duplicate_groups, in the order of the dict
    fdIdx,          \* number of groups handled
    fdReport        \* history: what was done for every handled group

fdVars == <<posix, fdFiles, fdPc, fdGroups, fdIdx, fdReport>>

\* The state of the single calls that are examined on their own.
VARIABLES
    nmName,         \* fix_duplicates' grouping key: the filename ...
    nmOnce,         \* ... its base_name ...
    nmTwice,        \* ... and the base_name of that base_name
    nmPc,
    imgPc,          \* position of the handle_duplicate_images call
    imgBefore,      \* history: the folder's files when the call was made
    sumPc,          \* position of the two update_folder_summary calls
    sumFolder,      \* their folder_path
    sumFirst,       \* what the first call returned
    sumSecond,      \* what the second call returned
    cfsPc,          \* position of the two create_folder_structure calls
    cfsCategories,  \* their categories
    cfsFirst,       \* outcome of the first call
    cfsSecond       \* outcome of the second call

nmVars == <<nmName, nmOnce, nmTwice, nmPc>>

imgVars == <<imgPc, imgBefore>>

sumVars == <<sumPc, sumFolder, sumFirst, sumSecond>>

cfsVars == <<cfsPc, cfsCategories, cfsFirst, cfsSecond>>

\* The state of process_single_file that the threaded run leaves out.
VARIABLES
    not_found_lock, \* Free, or the worker that holds the lock
    wresponse,      \* the answer the lookup service gives to a worker's task
    wpath,          \* current_path of a worker in create_folder_structure
    wrest,          \* the categories a worker has not yet walked
    ledgerWrites    \* history: the stores into not_found_files

taskVars == <<not_found_lock, wresponse, wpath, wrest, ledgerWrites>>

\* merge_folders: the operation, the source's 3ds_models tree, and where the
\* call stands.  The destination tree is destDirs and destFiles.
VARIABLES
    operation,          \* "move" or "copy"
    sourceDirs,         \* directories of the source's 3ds_models (<<>> is its root)
    sourceFiles,        \* files below the source's 3ds_models
    mergePc,            \* position of merge_folders
    walkTodo,           \* directories os.walk has still to yield
    sourceAtStart,      \* history: sourceFiles when merge_folders was called
    tried               \* history: source files that reached the exists test

mgVars ==
    <<operation, sourceDirs, sourceFiles, mergePc, walkTodo, sourceAtStart,
      tried>>

\* fix_duplicates called again on the same directory.
VARIABLES
    fdPass,             \* number of finished fix_duplicates calls followed by another
    fdFirstFiles,       \* history: fdFiles when the first call returned
    fdFirstGroups       \* history: number of groups the first call handled

passVars == <<fdPass, fdFirstFiles, fdFirstGroups>>

extVars == <<mgVars, passVars>>

auxVars == <<nmVars, imgVars, sumVars, cfsVars, taskVars, extVars>>

Workers == 1..max_workers

Free == 0

(***************************************************************************)
(* Sequences of distinct elements of a set: the orders os.listdir may      *)
(* return a directory in.                                                  *)
(***************************************************************************)
Orders(S) ==
    {q \in [1..Cardinality(S) -> S] : \A i, j \in DOMAIN q : q[i] = q[j] => i = j}

\* [f for f in listing if f.lower().endswith((".zip", ".rar", ".7z"))]
RECURSIVE CompressedOf(_)
CompressedOf(listing) ==
    IF listing = <<>> THEN <<>>
    ELSE IF IsCompressed(Head(listing))
    THEN <<Head(listing)>> \o CompressedOf(Tail(listing))
    ELSE CompressedOf(Tail(listing))

(***************************************************************************)
(* The failure ledger, a dict.                                             *)
(***************************************************************************)
DictPut(d, k, r) == {e \in d : e.key # k} \cup {[key |-> k, reason |-> r]}

DictKeys(d) == {e.key : e \in d}

(***************************************************************************)
(* Paths under models_root.                                                *)
(***************************************************************************)
\* os.path.join(path, segment): an empty segment names the directory itself.
PathJoin(path, segment) ==
    IF segment = <<>> THEN path ELSE Append(path, segment)

IllegalChars == {"<", ">", ":", "\"", "/", "\\", "|", "?", "*"}

RECURSIVE StripIllegal(_)
StripIllegal(s) ==
    IF s = <<>> THEN <<>>
    ELSE IF Head(s) \in IllegalChars THEN StripIllegal(Tail(s))
    ELSE <<Head(s)>> \o StripIllegal(Tail(s))

\* re.sub(r'[<>:"/\\|?*]', "", category); a null title raises TypeError.
CleanCategory(category) == StripIllegal(category)

\* os.makedirs(path): the directory and its missing parents.
Prefixes(path) == {SubSeq(path, 1, n) : n \in 0..Len(path)}

\* A loop that calls os.makedirs without looking first.
MissingAlways(dirs, path) == TRUE

\* if not os.path.exists(current_path)
Missing(dirs, path) == path \notin dirs

\* os.makedirs(path): FileExistsError when the directory is already there.
makedirs(dirs, path) ==
    IF path \in dirs THEN [dirs |-> dirs, raised |-> TRUE]
    ELSE [dirs |-> dirs \cup Prefixes(path), raised |-> FALSE]

\* create_folder_structure from `path` on: [dirs, path, raised].
RECURSIVE CreateFrom(_, _, _)
CreateFrom(dirs, path, categories) ==
    IF categories = <<>> THEN [dirs |-> dirs, path |-> path, raised |-> FALSE]
    ELSE IF Head(categories) = None
    THEN [dirs |-> dirs, path |-> path, raised |-> TRUE]
    ELSE LET current_path == PathJoin(path, CleanCategory(Head(categories)))
             made == IF Missing(dirs, current_path)
                     THEN makedirs(dirs, current_path)
                     ELSE [dirs |-> dirs, raised |-> FALSE]
         IN  IF made.raised
             THEN [dirs |-> dirs, path |-> path, raised |-> TRUE]
             ELSE CreateFrom(made.dirs, current_path, Tail(categories))

create_folder_structure(dirs, categories) == CreateFrom(dirs, <<>>, categories)


(***************************************************************************)
(* Files of the output tree.                                               *)
(***************************************************************************)
FileAt(files, dir, name) == {f \in files : f.dir = dir /\ f.name = name}

\* Writing (or moving a file) to a path replaces what the path held.
WriteFile(files, dir, name, data) ==
    (files \ FileAt(files, dir, name))
        \cup {[dir |-> dir, name |-> name, data |-> data]}

\* A summary that walks the whole subtree of folder_path.
FolderSummaryOfSubtree(dirs, files, folder_path) ==
    LET below(d) ==
            Len(d) >= Len(folder_path)
                /\ SubSeq(d, 1, Len(folder_path)) = folder_path
        subfolders == {d \in dirs : below(d) /\ d # folder_path}
        items == {f \in files : below(f.dir) /\ f.name # SummaryName}
        exts == {Lower(splitext(f.name)[2]) : f \in items}
    IN  [kind |-> "summary",
         total_files |-> Cardinality(items),
         total_subfolders |-> Cardinality(subfolders),
         file_types |->
            [e \in exts |->
                Cardinality({f \in items : Lower(splitext(f.name)[2]) = e})]]

\* A summary that counts its own sidecar file.
FolderSummaryWithSidecar(dirs, files, folder_path) ==
    LET immediate_subfolders ==
            {d \in dirs : /\ Len(d) = Len(folder_path) + 1
                          /\ SubSeq(d, 1, Len(folder_path)) = folder_path}
        items == {f \in files : f.dir = folder_path}
        exts == {Lower(splitext(f.name)[2]) : f \in items}
    IN  [kind |-> "summary",
         total_files |-> Cardinality(items),
         total_subfolders |-> Cardinality(immediate_subfolders),
         file_types |->
            [e \in exts |->
                Cardinality({f \in items : Lower(splitext(f.name)[2]) = e})]]

\* The summary update_folder_summary computes for folder_path.
FolderSummary(dirs, files, folder_path) ==
    LET immediate_subfolders ==
            {d \in dirs : /\ Len(d) = Len(folder_path) + 1
                          /\ SubSeq(d, 1, Len(folder_path)) = folder_path}
        items == {f \in files : f.dir = folder_path /\ f.name # SummaryName}
        exts == {Lower(splitext(f.name)[2]) : f \in items}
    IN  [kind |-> "summary",
         total_files |-> Cardinality(items),
         total_subfolders |-> Cardinality(immediate_subfolders),
         file_types |->
            [e \in exts |->
                Cardinality({f \in items : Lower(splitext(f.name)[2]) = e})]]

\* update_folder_summary: the sidecar is overwritten with the new summary.
update_folder_summary(dirs, files, folder_path) ==
    WriteFile(files, folder_path, SummaryName,
              FolderSummary(dirs, files, folder_path))

(***************************************************************************)
(* get_model_details: the ledger after the call and the details returned.  *)
(***************************************************************************)
NoDetails == [found |-> FALSE, categories |-> <<>>]

CategoriesOf(model) ==
    (IF model.category_parent # Absent THEN <<model.category_parent>> ELSE <<>>)
    \o (IF model.category # Absent THEN <<model.category>> ELSE <<>>)

get_model_details(ledger, file_id, response) ==
    IF response.kind = "exception"
    THEN [ledger |-> DictPut(ledger, file_id, "exception"),
          details |-> NoDetails]
    ELSE IF response.kind = "no_models"
    THEN [ledger |-> DictPut(ledger, file_id, "No models found in API response"),
          details |-> NoDetails]
    ELSE IF CategoriesOf(response) = <<>>
    THEN [ledger |-> DictPut(ledger, file_id, "No categories found"),
          details |-> NoDetails]
    ELSE IF ~response.image
    THEN [ledger |-> ledger, details |-> NoDetails]
    ELSE [ledger |-> ledger,
          details |-> [found |-> TRUE, categories |-> CategoriesOf(response)]]

(***************************************************************************)
(* process_files, the coordinator.                                         *)
(***************************************************************************)
LiveWorkers == {w \in threads : wpc[w] # "exit"}

\* A coordinator that puts a single sentinel for all workers.
PcAfterPutOneSentinel(nfiles, nworkers, n) ==
    IF n < nfiles THEN "put_files"
    ELSE IF n < nfiles + 1 THEN "put_sentinels"
    ELSE "join"

\* Where process_files goes on after the thread start, or after a put.
PcAfterPut(nfiles, nworkers, n) ==
    IF n < nfiles THEN "put_files"
    ELSE IF n < nfiles + nworkers THEN "put_sentinels"
    ELSE "join"

\* get_directories, the two existence checks, the listing, the thread start.
M_Start ==
    /\ UNCHANGED <<fdVars, auxVars>>
    /\ mainPc = "start"
    /\ rootExists' = TRUE
    /\ destExists' = TRUE
    /\ destDirs' = destDirs \cup {<<>>}
    /\ UNCHANGED <<srcExists, srcFiles, destFiles>>
    /\ IF ~srcExists \/ ~destExists'
       THEN /\ mainPc' = "aborted"
            /\ UNCHANGED <<compressed_files, total_files, threads, wpc>>
       ELSE \E listing \in Orders(srcFiles) :
            /\ compressed_files' = CompressedOf(listing)
            /\ total_files' = Len(compressed_files')
            /\ threads' = 1..max_workers
            /\ wpc' = [w \in Workers |-> "get"]
            /\ mainPc' = PcAfterPut(total_files', max_workers, 0)
    /\ UNCHANGED <<max_workers, joined, enqueued, wfile, wtmp, wdetails, wdest,
                   counterVars, histVars, processing_queue, not_found_files>>

\* A loop that puts the first file at every turn.
FileToPutFirst(files, n) == files[1]

\* for filename in compressed_files: the file put after `n` puts.
FileToPut(files, n) == files[n + 1]

M_PutFile ==
    /\ UNCHANGED <<fdVars, auxVars>>
    /\ mainPc = "put_files"
    /\ processing_queue' =
           Append(processing_queue, FileToPut(compressed_files, enqueued))
    /\ enqueued' = enqueued + 1
    /\ mainPc' = PcAfterPut(total_files, max_workers, enqueued')
    /\ UNCHANGED <<fsVars, max_workers, compressed_files, total_files, threads,
                   joined, workerVars, counterVars, histVars, not_found_files>>

M_PutSentinel ==
    /\ UNCHANGED <<fdVars, auxVars>>
    /\ mainPc = "put_sentinels"
    /\ processing_queue' = Append(processing_queue, None)
    /\ enqueued' = enqueued + 1
    /\ mainPc' = PcAfterPut(total_files, max_workers, enqueued')
    /\ UNCHANGED <<fsVars, max_workers, compressed_files, total_files, threads,
                   joined, workerVars, counterVars, histVars, not_found_files>>

\* A coordinator that waits for the first thread only.
JoinsDoneEarly(j, nworkers) == j >= 1

\* for thread in self.threads: thread.join() is over after the last thread.
JoinsDone(j, nworkers) == j = nworkers

\* thread.join() returns once the thread has exited.
M_Join ==
    /\ UNCHANGED <<fdVars, auxVars>>
    /\ mainPc = "join"
    /\ wpc[joined + 1] = "exit"
    /\ joined' = joined + 1
    /\ mainPc' = IF JoinsDone(joined', max_workers) THEN "ledger" ELSE "join"
    /\ UNCHANGED <<fsVars, max_workers, compressed_files, total_files, threads,
                   enqueued, workerVars, counterVars, histVars,
                   processing_queue, not_found_files>>

LedgerIsWritten(ledger) == ledger # {}

M_Ledger ==
    /\ UNCHANGED <<fdVars, auxVars>>
    /\ mainPc = "ledger"
    /\ IF LedgerIsWritten(not_found_files)
       THEN /\ destFiles' =
                   WriteFile(destFiles, <<>>, NotFoundLog,
                             [kind |-> "ledger", entries |-> not_found_files])
            /\ ledgerLog' =
                   Append(ledgerLog,
                          [live |-> Cardinality(LiveWorkers),
                           entries |-> Cardinality(not_found_files)])
       ELSE UNCHANGED <<destFiles, ledgerLog>>
    /\ ledgerStepDone' = TRUE
    /\ mainPc' = "summary"
    /\ UNCHANGED <<srcExists, srcFiles, destExists, rootExists, destDirs,
                   max_workers, compressed_files, total_files, threads, joined,
                   enqueued, workerVars, counterVars, calls, handed, moved,
                   rootSummaryLog, raised, processing_queue, not_found_files>>

M_Summary ==
    /\ UNCHANGED <<fdVars, auxVars>>
    /\ mainPc = "summary"
    /\ destFiles' = update_folder_summary(destDirs, destFiles, <<>>)
    /\ rootSummaryLog' =
           Append(rootSummaryLog,
                  [by |-> 0, live |-> Cardinality(LiveWorkers),
                   after_ledger |-> ledgerStepDone])
    /\ mainPc' = "done"
    /\ UNCHANGED <<srcExists, srcFiles, destExists, rootExists, destDirs,
                   max_workers, compressed_files, total_files, threads, joined,
                   enqueued, workerVars, counterVars, calls, handed, moved,
                   ledgerLog, raised, ledgerStepDone, processing_queue,
                   not_found_files>>


(***************************************************************************)
(* worker and process_single_file.                                         *)
(***************************************************************************)
\* The filename of a worker that holds no task.
NoFile == <<>>

\* A worker that never comes back from its pause after a task.
AfterTaskStuck == "stuck"

\* finally: task_done(), sleep, and the loop goes on with the next get().
AfterTask == "get"

\* A worker without the except clause: the exception ends the thread.
OnExceptionUncaught == "exit"

\* except Exception: the error is printed and logged, then the finally.
OnException == AfterTask

\* filename = self.processing_queue.get(); a sentinel ends the loop.
W_Get(w) ==
    /\ UNCHANGED <<fdVars, auxVars>>
    /\ w \in threads
    /\ wpc[w] = "get"
    /\ processing_queue # <<>>
    /\ processing_queue' = Tail(processing_queue)
    /\ IF Head(processing_queue) = None
       THEN /\ wpc' = [wpc EXCEPT ![w] = "exit"]
            /\ UNCHANGED wfile
       ELSE /\ wpc' = [wpc EXCEPT ![w] = "acquire"]
            /\ wfile' = [wfile EXCEPT ![w] = Head(processing_queue)]
    /\ UNCHANGED <<fsVars, mainVars, wtmp, wdetails, wdest, counterVars,
                   histVars, not_found_files>>

\* A counter that is updated without the lock.
CanAcquireUnlocked(lock) == TRUE

\* with self.counter_lock: entering waits until the lock is free.
CanAcquire(lock) == lock = Free

\* Entering the lock; self.processed_count += 1 loads the counter ...
W_Acquire(w) ==
    /\ UNCHANGED <<fdVars, auxVars>>
    /\ w \in threads
    /\ wpc[w] = "acquire"
    /\ CanAcquire(counter_lock)
    /\ counter_lock' = w
    /\ wtmp' = [wtmp EXCEPT ![w] = processed_count]
    /\ wpc' = [wpc EXCEPT ![w] = "store"]
    /\ UNCHANGED <<fsVars, mainVars, wfile, wdetails, wdest,
                   processed_count, histVars, processing_queue,
                   not_found_files>>

\* ... and stores it; current_count = self.processed_count; the lock is left.
W_Store(w) ==
    /\ UNCHANGED <<fdVars, auxVars>>
    /\ w \in threads
    /\ wpc[w] = "store"
    /\ processed_count' = wtmp[w] + 1
    /\ handed' = handed \cup {[file |-> wfile[w], count |-> processed_count']}
    /\ counter_lock' = Free
    /\ wtmp' = [wtmp EXCEPT ![w] = 0]
    /\ wpc' = [wpc EXCEPT ![w] = "process"]
    /\ UNCHANGED <<fsVars, mainVars, wfile, wdetails, wdest, calls, moved,
                   rootSummaryLog, ledgerLog, raised, ledgerStepDone,
                   processing_queue, not_found_files>>

\* process_single_file up to the return of get_model_details.
W_Lookup(w) ==
    /\ UNCHANGED <<fdVars, auxVars>>
    /\ w \in threads
    /\ wpc[w] = "process"
    /\ calls' = [calls EXCEPT ![wfile[w]] = @ + 1]
    /\ LET file_id == extract_file_id(wfile[w])
       IN  IF file_id = None
           THEN /\ not_found_files' =
                       DictPut(not_found_files, wfile[w],
                               "Invalid filename format")
                /\ wpc' = [wpc EXCEPT ![w] = AfterTask]
                /\ wfile' = [wfile EXCEPT ![w] = NoFile]
                /\ UNCHANGED wdetails
           ELSE \E response \in LookupResponses :
                LET r == get_model_details(not_found_files, file_id, response)
                IN  /\ not_found_files' = r.ledger
                    /\ wdetails' = [wdetails EXCEPT ![w] = r.details]
                    /\ IF r.details.found
                       THEN /\ wpc' = [wpc EXCEPT ![w] = "place"]
                            /\ UNCHANGED wfile
                       ELSE /\ wpc' = [wpc EXCEPT ![w] = AfterTask]
                            /\ wfile' = [wfile EXCEPT ![w] = NoFile]
    /\ UNCHANGED <<fsVars, mainVars, wtmp, wdest, counterVars, handed,
                   moved, rootSummaryLog, ledgerLog, raised, ledgerStepDone,
                   processing_queue>>

\* shutil.move(source_path, dest_path) onto a file path: an existing
\* destination file is replaced.
MoveArchive(files, dir, name) ==
    WriteFile(files, dir, name, [kind |-> "archive", from |-> "new"])

\* create_folder_structure, taken in one piece (SpecTask takes it segment by
\* segment), then the move of the compressed file.
W_Place(w) ==
    /\ UNCHANGED <<fdVars, auxVars>>
    /\ w \in threads
    /\ wpc[w] = "place"
    /\ wdetails' = [wdetails EXCEPT ![w] = NoDetails]
    /\ LET c == create_folder_structure(destDirs, wdetails[w].categories)
       IN  /\ destDirs' = c.dirs
           /\ IF c.raised
              THEN /\ wpc' = [wpc EXCEPT ![w] = OnException]
                   /\ raised' = raised \cup {wfile[w]}
                   /\ wfile' = [wfile EXCEPT ![w] = NoFile]
                   /\ UNCHANGED <<srcFiles, destFiles, moved, wdest>>
              ELSE \E io_error \in BOOLEAN :
                   IF io_error
                   THEN /\ wpc' = [wpc EXCEPT ![w] = AfterTask]
                        /\ wfile' = [wfile EXCEPT ![w] = NoFile]
                        /\ UNCHANGED <<srcFiles, destFiles, moved, wdest,
                                       raised>>
                   ELSE /\ srcFiles' = srcFiles \ {wfile[w]}
                        /\ destFiles' = MoveArchive(destFiles, c.path, wfile[w])
                        /\ moved' = moved \cup {wfile[w]}
                        /\ wdest' = [wdest EXCEPT ![w] = c.path]
                        /\ wpc' = [wpc EXCEPT ![w] = "summary"]
                        /\ UNCHANGED <<wfile, raised>>
    /\ UNCHANGED <<srcExists, destExists, rootExists, mainVars, wtmp,
                   counterVars, calls, handed, rootSummaryLog,
                   ledgerLog, ledgerStepDone, processing_queue,
                   not_found_files>>

\* update_folder_summary(destination_folder) at the end of the task.  The
\* preview image steps before it (download_image, handle_duplicate_images,
\* move_related_images) catch their own errors and touch image files only;
\* image files are not part of this specification's output tree.
W_Summary(w) ==
    /\ UNCHANGED <<fdVars, auxVars>>
    /\ w \in threads
    /\ wpc[w] = "summary"
    /\ destFiles' = update_folder_summary(destDirs, destFiles, wdest[w])
    /\ rootSummaryLog' =
           IF wdest[w] = <<>>
           THEN Append(rootSummaryLog,
                       [by |-> w, live |-> Cardinality(LiveWorkers),
                        after_ledger |-> ledgerStepDone])
           ELSE rootSummaryLog
    /\ wpc' = [wpc EXCEPT ![w] = AfterTask]
    /\ wfile' = [wfile EXCEPT ![w] = NoFile]
    /\ wdest' = [wdest EXCEPT ![w] = <<>>]
    /\ UNCHANGED <<srcExists, srcFiles, destExists, rootExists, destDirs,
                   mainVars, wtmp, wdetails, counterVars, calls,
                   handed, moved, ledgerLog, raised, ledgerStepDone,
                   processing_queue, not_found_files>>

(***************************************************************************)
(* fix_duplicates: the regular expressions.                                *)
(***************************************************************************)
\* Number of whitespace characters s starts with.
RECURSIVE LeadingSpaces(_)
LeadingSpaces(s) ==
    IF s # <<>> /\ IsSpace(Head(s)) THEN 1 + LeadingSpaces(Tail(s)) ELSE 0

Drop(s, n) == SubSeq(s, n + 1, Len(s))

\* Length of the match of \(\d+\) at the start of s, 0 when there is none.
ParenLen(s) ==
    IF s # <<>> /\ Head(s) = "("
    THEN LET digits == {n \in 1..(Len(s) - 1) :
                            \A i \in 2..(n + 1) : IsDigit(s[i])}
             closing == {n \in digits : n + 2 <= Len(s) /\ s[n + 2] = ")"}
         IN  IF closing = {} THEN 0
             ELSE (CHOOSE n \in closing : \A m \in closing : m <= n) + 2
    ELSE 0

\* Length of the match of \s*\(\d+\)\s* at the start of s, 0 when none.
SuffixLen(s) ==
    LET k == LeadingSpaces(s)
        m == ParenLen(Drop(s, k))
    IN  IF m = 0 THEN 0 ELSE k + m + LeadingSpaces(Drop(s, k + m))

\* re.sub(r"\s*\(\d+\)\s*", "", s)
RECURSIVE SubSuffixes(_)
SubSuffixes(s) ==
    IF s = <<>> THEN <<>>
    ELSE IF SuffixLen(s) > 0 THEN SubSuffixes(Drop(s, SuffixLen(s)))
    ELSE <<Head(s)>> \o SubSuffixes(Tail(s))

\* str.strip()
RECURSIVE StripRight(_)
StripRight(s) ==
    IF s # <<>> /\ IsSpace(s[Len(s)])
    THEN StripRight(SubSeq(s, 1, Len(s) - 1))
    ELSE s

Strip(s) == StripRight(Drop(s, LeadingSpaces(s)))

\* base_name = re.sub(r"\s*\(\d+\)\s*", "", filename).strip()
BaseName(filename) == Strip(SubSuffixes(filename))

\* re.search(r"\(\d+\)", name)
HasNumber(name) == \E i \in 1..Len(name) : ParenLen(Drop(name, i - 1)) > 0

\* re.sub(r"\s*\(\d+\)\s*$", "", name): the pattern must reach the end.
EndMatches(name) ==
    {i \in 1..Len(name) :
        LET t == Drop(name, i - 1) IN SuffixLen(t) > 0 /\ SuffixLen(t) = Len(t)}

StripEndNumber(name) ==
    IF EndMatches(name) = {} THEN name
    ELSE SubSeq(name, 1,
                (CHOOSE i \in EndMatches(name) :
                     \A j \in EndMatches(name) : i <= j) - 1)

(***************************************************************************)
(* fix_duplicates: the files of the source directory.                      *)
(***************************************************************************)
DuplicatesName == <<"D", "u", "p", "l", "i", "c", "a", "t", "e", "s">>

\* File names a source directory may hold.
DupNames ==
    { <<"a">>, <<"a", " ", "(", "1", ")">>, <<"a", "(", "2", ")">>,
      <<"a", ".", "z">>, <<"a", " ", "(", "1", ")", ".", "z">> }

\* Directories (below the source directory) that hold files at the start.
DupDirs == { <<>>, << <<"s">> >> }

MaxSize == 2

PathOf(f) == [dir |-> f.dir, name |-> f.name]

IsPrefix(p, d) == Len(p) <= Len(d) /\ SubSeq(d, 1, Len(p)) = p

\* os.walk (top down): a directory's own files come first and together,
\* then its subdirectories one after the other.
IsWalk(q) ==
    \A i \in DOMAIN q : \A p \in Prefixes(q[i].dir) :
        LET inside == {j \in DOMAIN q : IsPrefix(p, q[j].dir)}
        IN  /\ \A j, k \in inside : \A m \in j..k : m \in inside
            /\ \A j, k \in inside :
                   q[j].dir = p /\ q[k].dir # p => j < k

WalkOrders(files) == {q \in Orders({PathOf(f) : f \in files}) : IsWalk(q)}

\* The paths of q whose base name is b, in the order of q.
RECURSIVE PathsOf(_, _)
PathsOf(q, b) ==
    IF q = <<>> THEN <<>>
    ELSE IF BaseName(Head(q).name) = b THEN <<Head(q)>> \o PathsOf(Tail(q), b)
    ELSE PathsOf(Tail(q), b)

\* file_groups, a dict in insertion order, restricted to len(v) > 1.
RECURSIVE GroupsFrom(_, _, _)
GroupsFrom(q, all, seen) ==
    IF q = <<>> THEN <<>>
    ELSE LET b == BaseName(Head(q).name)
         IN  IF b \in seen THEN GroupsFrom(Tail(q), all, seen)
             ELSE (IF Len(PathsOf(all, b)) > 1
                   THEN <<[base_name |-> b, file_paths |-> PathsOf(all, b)]>>
                   ELSE <<>>)
                  \o GroupsFrom(Tail(q), all, seen \cup {b})

DuplicateGroups(q) == GroupsFrom(q, q, {})

SizeOf(files, path) ==
    (CHOOSE f \in files : PathOf(f) = path).size

\* Insert x into q, sorted by size, largest first, behind its equals.
RECURSIVE InsertBySize(_, _)
InsertBySize(q, x) ==
    IF q = <<>> THEN <<x>>
    ELSE IF Head(q).size >= x.size THEN <<Head(q)>> \o InsertBySize(Tail(q), x)
    ELSE <<x>> \o q

\* A sort, largest first, that puts equal sizes in reverse order.
RECURSIVE InsertBeforeEquals(_, _)
InsertBeforeEquals(q, x) ==
    IF q = <<>> THEN <<x>>
    ELSE IF Head(q).size > x.size
    THEN <<Head(q)>> \o InsertBeforeEquals(Tail(q), x)
    ELSE <<x>> \o q

RECURSIVE SortBySizeUnstable(_)
SortBySizeUnstable(q) ==
    IF q = <<>> THEN <<>>
    ELSE InsertBeforeEquals(SortBySizeUnstable(SubSeq(q, 1, Len(q) - 1)),
                            q[Len(q)])

\* file_sizes.sort(key=lambda x: x[1], reverse=True): a stable sort.
RECURSIVE SortBySize(_)
SortBySize(q) ==
    IF q = <<>> THEN <<>>
    ELSE InsertBySize(SortBySize(SubSeq(q, 1, Len(q) - 1)), q[Len(q)])

FileSizes(files, file_paths) ==
    [i \in DOMAIN file_paths |->
        [path |-> file_paths[i], size |-> SizeOf(files, file_paths[i])]]

\* A choice that never looks for a clean name.
FirstCleanIgnored(file_paths, default) == default

\* The first path whose name holds no "(n)", or else the default.
RECURSIVE FirstClean(_, _)
FirstClean(file_paths, default) ==
    IF file_paths = <<>> THEN default
    ELSE IF ~HasNumber(Head(file_paths).name) THEN Head(file_paths)
    ELSE FirstClean(Tail(file_paths), default)

\* files_to_keep[0]
FileToKeep(file_paths, file_sizes) ==
    IF \A i \in DOMAIN file_sizes : file_sizes[i].size = file_sizes[1].size
    THEN FirstClean(file_paths, file_sizes[1].path)
    ELSE file_sizes[1].path

\* One folder for the duplicates of all groups.
SubfolderShared(base_name) == <<DuplicatesName>>

\* os.path.join(self.source_directory, "Duplicates", base_name)
Subfolder(base_name) == <<DuplicatesName, base_name>>

\* shutil.move(file_path, subfolder) for every file but the kept one, in the
\* order of file_sizes; the move raises when subfolder holds the name.
RECURSIVE MoveOthers(_, _, _, _)
MoveOthers(st, file_sizes, kept, subfolder) ==
    IF file_sizes = <<>> THEN st
    ELSE LET path == Head(file_sizes).path
             f == CHOOSE g \in st.files : PathOf(g) = path
             taken == \E g \in st.files :
                          g.dir = subfolder /\ g.name = path.name
         IN  IF path = kept
             THEN MoveOthers(st, Tail(file_sizes), kept, subfolder)
             ELSE IF taken
             THEN MoveOthers([st EXCEPT !.failed = @ \cup {path}],
                             Tail(file_sizes), kept, subfolder)
             ELSE MoveOthers(
                      [files |-> (st.files \ {f})
                                    \cup {[f EXCEPT !.dir = subfolder]},
                       moved |-> st.moved \cup {path},
                       failed |-> st.failed],
                      Tail(file_sizes), kept, subfolder)

\* os.rename(kept_file, new_path) when the kept name holds "(n)".
RenameKept(files, kept, replaces) ==
    LET new_filename == StripEndNumber(kept.name)
        f == CHOOSE g \in files : PathOf(g) = kept
        target == {g \in files : g.dir = kept.dir /\ g.name = new_filename}
    IN  IF ~HasNumber(kept.name)
        THEN [files |-> files, rename |-> "not_needed", new_name |-> kept.name]
        ELSE IF new_filename = kept.name
        THEN [files |-> files, rename |-> "done", new_name |-> new_filename]
        ELSE IF target # {} /\ ~replaces
        THEN [files |-> files, rename |-> "raised", new_name |-> new_filename]
        ELSE [files |-> ((files \ target) \ {f})
                            \cup {[f EXCEPT !.name = new_filename]},
              rename |-> "done", new_name |-> new_filename]

\* The first pass: the walk and the groups.
FD_Scan ==
    /\ fdPc = "scan"
    /\ \E q \in WalkOrders(fdFiles) :
           /\ fdGroups' = DuplicateGroups(q)
           /\ fdPc' = IF fdGroups' = <<>> THEN "done" ELSE "groups"
    /\ UNCHANGED <<posix, fdFiles, fdIdx, fdReport>>
    /\ UNCHANGED <<pfVars, auxVars>>

\* One turn of the loop over duplicate_groups.
FD_Group ==
    /\ fdPc = "groups"
    /\ LET g == fdGroups[fdIdx + 1]
           file_sizes == SortBySize(FileSizes(fdFiles, g.file_paths))
           kept == FileToKeep(g.file_paths, file_sizes)
           subfolder == Subfolder(g.base_name)
           mv == MoveOthers([files |-> fdFiles, moved |-> {}, failed |-> {}],
                            file_sizes, kept, subfolder)
           rn == RenameKept(mv.files, kept, posix)
       IN  /\ fdFiles' = rn.files
           /\ fdReport' =
                  Append(fdReport,
                         [base_name |-> g.base_name,
                          members |-> FileSizes(fdFiles, g.file_paths),
                          kept |-> kept,
                          moved |-> mv.moved,
                          failed |-> mv.failed,
                          rename |-> rn.rename,
                          new_name |-> rn.new_name])
    /\ fdIdx' = fdIdx + 1
    /\ fdPc' = IF fdIdx' = Len(fdGroups) THEN "done" ELSE "groups"
    /\ UNCHANGED <<posix, fdGroups>>
    /\ UNCHANGED <<pfVars, auxVars>>

(***************************************************************************)
(* The calls examined on their own are not made in the other               *)
(* specifications.                                                         *)
(***************************************************************************)
MergeIdle ==
    /\ operation = "move"
    /\ sourceDirs = {}
    /\ sourceFiles = {}
    /\ mergePc = "idle"
    /\ walkTodo = <<>>
    /\ sourceAtStart = {}
    /\ tried = {}

PassIdle ==
    /\ fdPass = 0
    /\ fdFirstFiles = {}
    /\ fdFirstGroups = 0

NMIdle ==
    /\ nmName = <<>>
    /\ nmOnce = <<>>
    /\ nmTwice = <<>>
    /\ nmPc = "idle"

ImgIdle ==
    /\ imgPc = "idle"
    /\ imgBefore = {}

SumIdle ==
    /\ sumPc = "idle"
    /\ sumFolder = <<>>
    /\ sumFirst = <<>>
    /\ sumSecond = <<>>

CFSIdle ==
    /\ cfsPc = "idle"
    /\ cfsCategories = <<>>
    /\ cfsFirst = <<>>
    /\ cfsSecond = <<>>

TaskIdle ==
    /\ not_found_lock = Free
    /\ wresponse = <<>>
    /\ wpath = <<>>
    /\ wrest = <<>>
    /\ ledgerWrites = {}

(***************************************************************************)
(* The threaded run: one SkyFileOrganizer, one call of process_files.      *)
(***************************************************************************)
DestTrees ==
    { [exists |-> FALSE, root |-> FALSE, dirs |-> {}, files |-> {}],
      [exists |-> TRUE, root |-> FALSE, dirs |-> {}, files |-> {}],
      [exists |-> TRUE, root |-> TRUE, dirs |-> {<<>>}, files |-> {}],
      [exists |-> TRUE, root |-> TRUE, dirs |-> {<<>>, << <<"A">> >>},
       files |-> {OldArchive}] }

FDIdle ==
    /\ posix = TRUE
    /\ fdFiles = {}
    /\ fdPc = "idle"
    /\ fdGroups = <<>>
    /\ fdIdx = 0
    /\ fdReport = <<>>

Init ==
    /\ FDIdle
    /\ NMIdle /\ ImgIdle /\ SumIdle /\ CFSIdle /\ TaskIdle /\ MergeIdle /\ PassIdle
    /\ srcExists \in BOOLEAN
    /\ srcFiles \in
           IF srcExists
           THEN {S \in SUBSET SourcePool : Cardinality(S) <= MaxFiles}
           ELSE {{}}
    /\ \E t \in DestTrees :
           /\ destExists = t.exists
           /\ rootExists = t.root
           /\ destDirs = t.dirs
           /\ destFiles = t.files
    /\ max_workers \in 1..MaxWorkers
    /\ compressed_files = <<>>
    /\ total_files = 0
    /\ processing_queue = <<>>
    /\ threads = {}
    /\ mainPc = "start"
    /\ joined = 0
    /\ enqueued = 0
    /\ wpc = [w \in 1..max_workers |-> "unstarted"]
    /\ wfile = [w \in 1..max_workers |-> NoFile]
    /\ wtmp = [w \in 1..max_workers |-> 0]
    /\ wdetails = [w \in 1..max_workers |-> NoDetails]
    /\ wdest = [w \in 1..max_workers |-> <<>>]
    /\ processed_count = 0
    /\ counter_lock = Free
    /\ not_found_files = {}
    /\ calls = [f \in SourcePool |-> 0]
    /\ handed = {}
    /\ moved = {}
    /\ rootSummaryLog = <<>>
    /\ ledgerLog = <<>>
    /\ raised = {}
    /\ ledgerStepDone = FALSE

Next ==
    \/ M_Start
    \/ M_PutFile
    \/ M_PutSentinel
    \/ M_Join
    \/ M_Ledger
    \/ M_Summary
    \/ \E w \in 1..MaxWorkers :
        \/ W_Get(w)
        \/ W_Acquire(w)
        \/ W_Store(w)
        \/ W_Lookup(w)
        \/ W_Place(w)
        \/ W_Summary(w)

vars == <<pfVars, fdVars, auxVars>>

Spec == Init /\ [][Next]_vars

(***************************************************************************)
(* The duplicate fixer: one SkyFileOrganizer, one call of fix_duplicates.  *)
(***************************************************************************)
PFIdle ==
    /\ srcExists = TRUE
    /\ srcFiles = {}
    /\ destExists = TRUE
    /\ rootExists = FALSE
    /\ destDirs = {}
    /\ destFiles = {}
    /\ max_workers = 1
    /\ compressed_files = <<>>
    /\ total_files = 0
    /\ processing_queue = <<>>
    /\ threads = {}
    /\ mainPc = "idle"
    /\ joined = 0
    /\ enqueued = 0
    /\ wpc = [w \in 1..max_workers |-> "unstarted"]
    /\ wfile = [w \in 1..max_workers |-> NoFile]
    /\ wtmp = [w \in 1..max_workers |-> 0]
    /\ wdetails = [w \in 1..max_workers |-> NoDetails]
    /\ wdest = [w \in 1..max_workers |-> <<>>]
    /\ processed_count = 0
    /\ counter_lock = Free
    /\ not_found_files = {}
    /\ calls = [f \in SourcePool |-> 0]
    /\ handed = {}
    /\ moved = {}
    /\ rootSummaryLog = <<>>
    /\ ledgerLog = <<>>
    /\ raised = {}
    /\ ledgerStepDone = FALSE

DupPaths == [dir : DupDirs, name : DupNames]

InitFD ==
    /\ PFIdle
    /\ NMIdle /\ ImgIdle /\ SumIdle /\ CFSIdle /\ TaskIdle /\ MergeIdle /\ PassIdle
    /\ posix \in BOOLEAN
    /\ \E P \in SUBSET DupPaths :
           /\ Cardinality(P) <= MaxDupFiles
           /\ \E size \in [P -> 1..MaxSize] :
                  fdFiles = {[dir |-> p.dir, name |-> p.name, size |-> size[p],
                              orig |-> p] : p \in P}
    /\ fdPc = "scan"
    /\ fdGroups = <<>>
    /\ fdIdx = 0
    /\ fdReport = <<>>

NextFD == FD_Scan \/ FD_Group

SpecFD == InitFD /\ [][NextFD]_vars


(***************************************************************************)
(* Properties of the threaded run (specification Spec).                    *)
(***************************************************************************)
Tasks == {compressed_files[i] : i \in 1..Len(compressed_files)}

RECURSIVE CountOf(_, _)
CountOf(q, x) ==
    IF q = <<>> THEN 0
    ELSE (IF Head(q) = x THEN 1 ELSE 0) + CountOf(Tail(q), x)

Placed(f) ==
    /\ f \in moved
    /\ \E g \in destFiles : g.name = f /\ g.data = [kind |-> "archive", from |-> "new"]

InLedger(f) ==
    \/ f \in DictKeys(not_found_files)
    \/ extract_file_id(f) \in DictKeys(not_found_files)

\* C1: when process_files has returned, every task was either moved into
\* its category folder or has an entry in the failure ledger (under its
\* filename or its file id), never neither and never both.
C1_ExactlyOneOutcome ==
    mainPc = "done" => \A f \in Tasks : Placed(f) # InLedger(f)

\* C2: every filename put on the queue is passed to process_single_file
\* exactly once: never twice, and once when process_files has returned.
C2_ProcessedExactlyOnce ==
    /\ \A f \in SourcePool : calls[f] <= 1
    /\ mainPc = "done" =>
           \A f \in SourcePool : calls[f] = IF f \in Tasks THEN 1 ELSE 0

C2_Witness ==
    /\ mainPc = "done"
    /\ max_workers = 2
    /\ total_files = 3
    /\ \A f \in Tasks : calls[f] = 1

C3_Counts ==
    /\ \A g, h \in handed : g.count = h.count => g = h
    /\ mainPc = "done" =>
           /\ processed_count = total_files
           /\ {h.count : h \in handed} = 1..total_files
           /\ {h.file : h \in handed} = Tasks

\* C3: when process_files returns processed_count equals the number of
\* tasks, the counter never decreases, and the current_count values handed
\* to the tasks are the numbers 1..N, none of them given twice.
C3_Counter ==
    /\ []C3_Counts
    /\ [][processed_count' >= processed_count]_processed_count

C3_Witness ==
    /\ mainPc = "done"
    /\ max_workers = 2
    /\ processed_count = 3
    /\ Cardinality(handed) = 3

SentinelsPut ==
    IF enqueued > total_files THEN enqueued - total_files ELSE 0

\* C4: an exception raised while a worker processes a task is caught in
\* that worker: the file is not put back on the queue and is not processed
\* again, the worker goes on (a worker leaves its loop only by taking a
\* sentinel), and every other task is still processed.
C4_ExceptionContained ==
    /\ \A f \in raised : calls[f] = 1 /\ CountOf(processing_queue, f) = 0
    /\ Cardinality({w \in threads : wpc[w] = "exit"})
           + CountOf(processing_queue, None) = SentinelsPut
    /\ mainPc = "done" => \A f \in Tasks : calls[f] = 1

\* One worker, whose first task raised and whose second task was placed.
C4_Witness ==
    /\ mainPc = "done"
    /\ max_workers = 1
    /\ total_files >= 2
    /\ compressed_files[1] \in raised
    /\ compressed_files[2] \in moved

LedgerPart ==
    /\ Len(ledgerLog) <= 1
    /\ \A i \in 1..Len(ledgerLog) : ledgerLog[i].live = 0
    /\ ledgerStepDone => (Len(ledgerLog) = 1 <=> not_found_files # {})
    /\ ~ledgerStepDone => ledgerLog = <<>>

\* C5, as claimed: the ledger file is written at most once, after all
\* workers have exited, exactly when the ledger is non-empty; the root
\* summary is recomputed exactly once in the run, after the ledger step and
\* after all workers have exited.
C5_RootSummaryOnce ==
    /\ LedgerPart
    /\ Len(rootSummaryLog) <= 1
    /\ \A i \in 1..Len(rootSummaryLog) :
           rootSummaryLog[i].live = 0 /\ rootSummaryLog[i].after_ledger
    /\ mainPc = "done" => Len(rootSummaryLog) = 1

ByCoordinator == {i \in 1..Len(rootSummaryLog) : rootSummaryLog[i].by = 0}

\* C5, amended: the ledger part as claimed; process_files itself recomputes
\* the root summary exactly once, as the last recomputation, after the
\* ledger step and after all workers have exited.
C5_CoordinatorSummaryOnce ==
    /\ LedgerPart
    /\ Cardinality(ByCoordinator) <= 1
    /\ \A i \in ByCoordinator :
           /\ rootSummaryLog[i].live = 0
           /\ rootSummaryLog[i].after_ledger
           /\ i = Len(rootSummaryLog)
    /\ mainPc = "done" => Cardinality(ByCoordinator) = 1

\* Two workers, a ledger that was written, a root summary that a worker
\* recomputed before the coordinator did.
C5_Witness ==
    /\ mainPc = "done"
    /\ max_workers = 2
    /\ Len(ledgerLog) = 1
    /\ Len(rootSummaryLog) = 2

\* C6: no transfer overwrites an existing destination file: an archive that
\* is in the output tree stays there with its content.
C6_NoOverwrite ==
    [][\A f \in destFiles : f.data.kind = "archive" => f \in destFiles']_destFiles


(***************************************************************************)
(* Properties of fix_duplicates (specification SpecFD).                    *)
(***************************************************************************)
Reports == {fdReport[i] : i \in 1..Len(fdReport)}

AllSameSize(r) ==
    \A i \in DOMAIN r.members : r.members[i].size = r.members[1].size

MaxSizeIn(r) ==
    CHOOSE x \in {r.members[i].size : i \in DOMAIN r.members} :
        \A i \in DOMAIN r.members : r.members[i].size <= x

\* The least position in a non-empty set of positions.
FirstOf(hits) == CHOOSE i \in hits : \A j \in hits : i <= j

\* C7: in a group whose members do not all have the same size, the kept
\* file is the first enumerated member among those of maximal size.
C7_KeepsFirstLargest ==
    \A r \in Reports :
        ~AllSameSize(r) =>
            LET largest == {i \in DOMAIN r.members :
                                r.members[i].size = MaxSizeIn(r)}
            IN  r.kept = r.members[FirstOf(largest)].path

\* Three members, the two largest of equal size.
C7_Witness ==
    \E r \in Reports :
        /\ ~AllSameSize(r)
        /\ Len(r.members) = 3
        /\ Cardinality({i \in DOMAIN r.members :
                            r.members[i].size = MaxSizeIn(r)}) = 2

\* C8: in a group whose members all have the same size, the kept file is
\* the first enumerated member whose name holds no "(n)", and the first
\* enumerated member when every name holds one.
C8_KeepsFirstClean ==
    \A r \in Reports :
        AllSameSize(r) =>
            LET clean == {i \in DOMAIN r.members :
                              ~HasNumber(r.members[i].path.name)}
            IN  r.kept =
                    r.members[IF clean = {} THEN 1 ELSE FirstOf(clean)].path

\* Equal sizes, the first member numbered, a later clean member kept.
C8_Witness ==
    \E r \in Reports :
        /\ AllSameSize(r)
        /\ HasNumber(r.members[1].path.name)
        /\ ~HasNumber(r.kept.name)
        /\ r.kept # r.members[1].path

\* C9: a kept file whose name holds "(n)", at the end of the name or before
\* the extension, is renamed in its directory to the group's normalized name
\* unless the rename raises.
C9_KeptRenamed ==
    \A r \in Reports :
        HasNumber(r.kept.name) /\ r.rename # "raised" =>
            \E f \in fdFiles :
                /\ f.orig = r.kept
                /\ f.dir = r.kept.dir
                /\ f.name = r.base_name

Quarantined(r, path) ==
    \E f \in fdFiles : f.orig = path /\ f.dir = <<DuplicatesName, r.base_name>>

Others(r) ==
    {r.members[i].path : i \in DOMAIN r.members} \ {r.kept}

MaxNameLen == 6

\* A letter, a digit, the dot, the space and the parentheses.
NameChars == {"a", "1", ".", " ", "(", ")"}

Names == UNION {[1..n -> NameChars] : n \in 0..MaxNameLen}

InitNorm ==
    /\ PFIdle
    /\ FDIdle
    /\ ImgIdle /\ SumIdle /\ CFSIdle /\ TaskIdle /\ MergeIdle /\ PassIdle
    /\ nmName \in Names
    /\ nmOnce = <<>>
    /\ nmTwice = <<>>
    /\ nmPc = "start"

\* The key of the file as the first pass computes it.
N_Once ==
    /\ nmPc = "start"
    /\ nmOnce' = BaseName(nmName)
    /\ nmPc' = "once"
    /\ UNCHANGED <<nmName, nmTwice>>
    /\ UNCHANGED <<extVars, pfVars, fdVars, imgVars, sumVars, cfsVars,
                   taskVars>>

\* The key of a file that is named like that key.
N_Twice ==
    /\ nmPc = "once"
    /\ nmTwice' = BaseName(nmOnce)
    /\ nmPc' = "twice"
    /\ UNCHANGED <<nmName, nmOnce>>
    /\ UNCHANGED <<extVars, pfVars, fdVars, imgVars, sumVars, cfsVars,
                   taskVars>>

NextNorm == N_Once \/ N_Twice

SpecNorm == InitNorm /\ [][NextNorm]_vars

\* C11: the grouping key is idempotent: the key of a name's key is that key,
\* for every name of letters, digits, dots, spaces and parentheses.
C11_NormalizeIdempotent ==
    nmPc = "twice" => nmTwice = nmOnce


(***************************************************************************)
(* handle_duplicate_images, called for a downloaded preview (specification *)
(* SpecImg).                                                               *)
(***************************************************************************)
MaxResolution == 2

ImageExts ==
    { <<".", "j", "p", "g">>, <<".", "j", "p", "e", "g">>,
      <<".", "p", "n", "g">> }

\* filename.lower().endswith((".jpg", ".jpeg", ".png"))
IsImageName(filename) == \E e \in ImageExts : EndsWith(Lower(filename), e)

\* str.startswith
StartsWith(s, prefix) ==
    Len(prefix) <= Len(s) /\ SubSeq(s, 1, Len(prefix)) = prefix

\* file_id.split(".")[0]
ModelNumber(file_id) ==
    LET dots == {i \in 1..Len(file_id) : file_id[i] = "."}
    IN  IF dots = {} THEN file_id
        ELSE SubSeq(file_id, 1, (CHOOSE i \in dots : \A j \in dots : i <= j) - 1)

\* Image.open succeeds on the file.
Opens(f) == f.data.kind = "image" /\ f.data.readable

\* The images collected into existing_images.
ExistingImages(files, folder, file_id, new_name) ==
    {f \in files :
        /\ f.dir = folder
        /\ IsImageName(f.name)
        /\ StartsWith(f.name, ModelNumber(file_id))
        /\ f.name # new_name
        /\ Opens(f)}

\* max(existing_images, key=lambda x: (x["resolution"], x["size"])); images
\* with the greatest key differ in their path only.
BestExisting(existing_images) ==
    CHOOSE b \in existing_images :
        \A x \in existing_images :
            \/ x.data.resolution < b.data.resolution
            \/ /\ x.data.resolution = b.data.resolution
               /\ x.data.size <= b.data.size

\* A test that lets an existing image of the same quality win.
ExistingIsBetterOrEqual(best_existing, new_image) ==
    \/ best_existing.data.resolution > new_image.data.resolution
    \/ /\ best_existing.data.resolution = new_image.data.resolution
       /\ best_existing.data.size >= new_image.data.size

\* The test of lines 766-769.
ExistingIsBetter(best_existing, new_image) ==
    \/ best_existing.data.resolution > new_image.data.resolution
    \/ /\ best_existing.data.resolution = new_image.data.resolution
       /\ best_existing.data.size > new_image.data.size

\* The files after handle_duplicate_images(folder, file_id, new_image_path).
\* An image that does not open raises inside the outer try: nothing is
\* removed.  os.remove is taken to succeed.
handle_duplicate_images(files, folder, file_id, new_name) ==
    LET new_images == FileAt(files, folder, new_name)
        existing_images == ExistingImages(files, folder, file_id, new_name)
    IN  IF new_images = {} \/ \E n \in new_images : ~Opens(n)
        THEN files
        ELSE IF existing_images = {} THEN files
        ELSE IF ExistingIsBetter(BestExisting(existing_images),
                                 CHOOSE n \in new_images : TRUE)
        THEN files \ new_images
        ELSE files \ existing_images

\* What an image file may be: a picture of some resolution and byte size,
\* or a file that Image.open rejects.
ImageData ==
    [kind : {"image"}, readable : {TRUE}, resolution : 1..MaxResolution,
     size : 1..MaxSize]
    \cup [kind : {"image"}, readable : {FALSE}, resolution : {0}, size : {1}]

ImgFolder == << <<"A">> >>

ImgFileId == <<"1", ".", "a">>

\* image_path = os.path.join(destination_folder, f"{file_id}.jpeg")
NewImageName == ImgFileId \o <<".", "j", "p", "e", "g">>

\* Names of the images the destination folder may already hold.
OldImageNames ==
    { <<"1", ".", "a", ".", "j", "p", "g">>,
      <<"1", ".", "b", ".", "P", "N", "G">>,
      <<"2", ".", "a", ".", "j", "p", "g">> }

\* Everything of the threaded run but the output tree is at rest.
RunIdle ==
    /\ srcExists = TRUE
    /\ srcFiles = {}
    /\ destExists = TRUE
    /\ rootExists = TRUE
    /\ max_workers = 1
    /\ compressed_files = <<>>
    /\ total_files = 0
    /\ processing_queue = <<>>
    /\ threads = {}
    /\ mainPc = "idle"
    /\ joined = 0
    /\ enqueued = 0
    /\ wpc = [w \in 1..max_workers |-> "unstarted"]
    /\ wfile = [w \in 1..max_workers |-> NoFile]
    /\ wtmp = [w \in 1..max_workers |-> 0]
    /\ wdetails = [w \in 1..max_workers |-> NoDetails]
    /\ wdest = [w \in 1..max_workers |-> <<>>]
    /\ processed_count = 0
    /\ counter_lock = Free
    /\ not_found_files = {}
    /\ calls = [f \in SourcePool |-> 0]
    /\ handed = {}
    /\ moved = {}
    /\ rootSummaryLog = <<>>
    /\ ledgerLog = <<>>
    /\ raised = {}
    /\ ledgerStepDone = FALSE

\* The folder holds the downloaded preview and any of the older images.
InitImg ==
    /\ RunIdle
    /\ FDIdle
    /\ NMIdle /\ SumIdle /\ CFSIdle /\ TaskIdle /\ MergeIdle /\ PassIdle
    /\ destDirs = {<<>>, ImgFolder}
    /\ \E new_data \in ImageData, N \in SUBSET OldImageNames :
           \E old_data \in [N -> ImageData] :
               destFiles =
                   {[dir |-> ImgFolder, name |-> NewImageName,
                     data |-> new_data]}
                   \cup {[dir |-> ImgFolder, name |-> n, data |-> old_data[n]] :
                            n \in N}
    /\ imgPc = "start"
    /\ imgBefore = {}

I_Handle ==
    /\ imgPc = "start"
    /\ destFiles' =
           handle_duplicate_images(destFiles, ImgFolder, ImgFileId,
                                   NewImageName)
    /\ imgBefore' = destFiles
    /\ imgPc' = "done"
    /\ UNCHANGED <<srcExists, srcFiles, destExists, rootExists, destDirs,
                   mainVars, workerVars, counterVars, histVars,
                   processing_queue, not_found_files>>
    /\ UNCHANGED <<extVars, fdVars, nmVars, sumVars, cfsVars, taskVars>>

NextImg == I_Handle

SpecImg == InitImg /\ [][NextImg]_vars

\* The downloaded preview and the older candidates, as the folder held them.
Incoming == CHOOSE n \in imgBefore : n.name = NewImageName

Candidates ==
    {f \in imgBefore :
        /\ f.name # NewImageName
        /\ f.name[1] = "1"
        /\ f.data.readable}

\* a is strictly greater than b under (resolution, size), lexicographically.
LexGreater(a, b) ==
    \/ a.data.resolution > b.data.resolution
    \/ a.data.resolution = b.data.resolution /\ a.data.size > b.data.size

BestBeatsIncoming ==
    \E b \in Candidates :
        /\ \A c \in Candidates : ~LexGreater(c, b)
        /\ LexGreater(b, Incoming)

\* C12: for a preview that opens, the existing images are kept and the
\* downloaded one is removed exactly when the best existing candidate under
\* (resolution, byte size) strictly beats the downloaded one; in every other
\* case, equal keys included, the downloaded image is kept and the existing
\* candidates are removed.
C12_KeepExistingIffStrictlyBetter ==
    imgPc = "done" /\ Incoming.data.readable =>
        IF BestBeatsIncoming
        THEN Incoming \notin destFiles /\ Candidates \subseteq destFiles
        ELSE Incoming \in destFiles /\ Candidates \cap destFiles = {}

\* Two candidates, the best of them equal to the downloaded image in both
\* keys: the downloaded image is kept.
C12_Witness ==
    /\ imgPc = "done"
    /\ Incoming.data.readable
    /\ Cardinality(Candidates) = 2
    /\ \E c \in Candidates :
           /\ c.data.resolution = Incoming.data.resolution
           /\ c.data.size = Incoming.data.size
    /\ ~BestBeatsIncoming
    /\ Incoming \in destFiles


(***************************************************************************)
(* update_folder_summary, called twice on a folder of some directory tree  *)
(* (specification SpecSum).                                                *)
(***************************************************************************)
MaxTreeFiles == 3

\* The directory trees below models_root.
TreeDirPool == { << <<"A">> >>, << <<"A">>, <<"B">> >>, << <<"C">> >> }

DirTrees ==
    {D \cup {<<>>} : D \in {E \in SUBSET TreeDirPool :
                                \A d \in E : Prefixes(d) \subseteq E \cup {<<>>}}}

\* The files a folder may hold; a sidecar left by an earlier run is stale.
TreeFileNames ==
    { <<"1", ".", "a", ".", "z", "i", "p">>,
      <<"1", ".", "a", ".", "J", "P", "G">>,
      <<"1", ".", "b", ".", "j", "p", "g">>,
      SummaryName }

StaleSummary ==
    [kind |-> "summary", total_files |-> 0, total_subfolders |-> 0,
     file_types |-> <<>>]

TreeFile(dir, name) ==
    [dir |-> dir, name |-> name,
     data |-> IF name = SummaryName THEN StaleSummary ELSE [kind |-> "file"]]

InitSum ==
    /\ RunIdle
    /\ FDIdle
    /\ NMIdle /\ ImgIdle /\ CFSIdle /\ TaskIdle /\ MergeIdle /\ PassIdle
    /\ destDirs \in DirTrees
    /\ \E P \in SUBSET (destDirs \X TreeFileNames) :
           /\ Cardinality(P) <= MaxTreeFiles
           /\ destFiles = {TreeFile(p[1], p[2]) : p \in P}
    /\ sumPc = "start"
    /\ sumFolder = <<>>
    /\ sumFirst = <<>>
    /\ sumSecond = <<>>

\* summary = update_folder_summary(folder_path) on an existing folder.
S_First ==
    /\ sumPc = "start"
    /\ \E folder_path \in destDirs :
           /\ sumFolder' = folder_path
           /\ sumFirst' = FolderSummary(destDirs, destFiles, folder_path)
           /\ destFiles' = update_folder_summary(destDirs, destFiles, folder_path)
    /\ sumPc' = "once"
    /\ UNCHANGED sumSecond
    /\ UNCHANGED <<srcExists, srcFiles, destExists, rootExists, destDirs,
                   mainVars, workerVars, counterVars, histVars,
                   processing_queue, not_found_files>>
    /\ UNCHANGED <<extVars, fdVars, nmVars, imgVars, cfsVars, taskVars>>

\* The same call again, nothing else having touched the tree.
S_Second ==
    /\ sumPc = "once"
    /\ sumSecond' = FolderSummary(destDirs, destFiles, sumFolder)
    /\ destFiles' = update_folder_summary(destDirs, destFiles, sumFolder)
    /\ sumPc' = "twice"
    /\ UNCHANGED <<sumFolder, sumFirst>>
    /\ UNCHANGED <<srcExists, srcFiles, destExists, rootExists, destDirs,
                   mainVars, workerVars, counterVars, histVars,
                   processing_queue, not_found_files>>
    /\ UNCHANGED <<extVars, fdVars, nmVars, imgVars, cfsVars, taskVars>>

NextSum == S_First \/ S_Second

SpecSum == InitSum /\ [][NextSum]_vars

\* The direct children of the summarised folder.
ChildDirs ==
    {d \in destDirs : d # <<>> /\ SubSeq(d, 1, Len(d) - 1) = sumFolder}

ChildFiles ==
    {f \in destFiles : f.dir = sumFolder /\ f.name # SummaryName}

ExtOf(f) == Lower(splitext(f.name)[2])

RECURSIVE SumOver(_, _)
SumOver(fn, S) ==
    IF S = {} THEN 0
    ELSE LET x == CHOOSE y \in S : TRUE IN fn[x] + SumOver(fn, S \ {x})

\* C13: the summary counts direct children only: total_subfolders is the
\* number of immediate subdirectories, total_files the number of files
\* directly in the folder other than folder_summary.json, file_types maps
\* each lowercased extension to its count among them, and total_files is the
\* sum of these counts.
C13_DirectChildrenOnly ==
    sumPc \in {"once", "twice"} =>
        /\ sumFirst.total_subfolders = Cardinality(ChildDirs)
        /\ sumFirst.total_files = Cardinality(ChildFiles)
        /\ DOMAIN sumFirst.file_types = {ExtOf(f) : f \in ChildFiles}
        /\ \A e \in DOMAIN sumFirst.file_types :
               sumFirst.file_types[e] =
                   Cardinality({f \in ChildFiles : ExtOf(f) = e})
        /\ sumFirst.total_files =
               SumOver(sumFirst.file_types, DOMAIN sumFirst.file_types)

\* A folder with a subfolder, a file below that subfolder, and two direct
\* files whose extensions differ in case only.
C13_Witness ==
    /\ sumPc = "once"
    /\ sumFolder = << <<"A">> >>
    /\ sumFirst.total_subfolders = 1
    /\ sumFirst.total_files = 2
    /\ sumFirst.file_types = (<<".", "j", "p", "g">> :> 2)
    /\ \E f \in destFiles : f.dir = << <<"A">>, <<"B">> >>

\* C14: a second call on the same folder, with nothing else changed in
\* between, returns the counts of the first call.
C14_SummaryIdempotent ==
    sumPc = "twice" => sumSecond = sumFirst

\* Two calls on a folder that holds files and a subfolder.
C14_Witness ==
    /\ sumPc = "twice"
    /\ sumFirst.total_files >= 2
    /\ sumFirst.total_subfolders >= 1
    /\ sumSecond.total_files >= 2


(***************************************************************************)
(* create_folder_structure, called twice in sequence with the same         *)
(* categories (specification SpecCFS).                                     *)
(***************************************************************************)
\* Titles of the categories; get_model_details returns one or two of them.
CfsTitles == { <<"A">>, <<"B">>, <<"A", "?">>, <<"?">>, None }

CategoryLists ==
    {<<t>> : t \in CfsTitles} \cup {<<p, t>> : p, t \in CfsTitles}

InitCFS ==
    /\ RunIdle
    /\ FDIdle
    /\ NMIdle /\ ImgIdle /\ SumIdle /\ TaskIdle /\ MergeIdle /\ PassIdle
    /\ destDirs \in DirTrees
    /\ destFiles = {}
    /\ cfsCategories \in CategoryLists
    /\ cfsPc = "start"
    /\ cfsFirst = <<>>
    /\ cfsSecond = <<>>

\* What a call did: the path returned, or the raise, and the directories
\* that were made.
CfsOutcome(dirs, c) ==
    [path |-> c.path, raised |-> c.raised, created |-> c.dirs \ dirs]

C_First ==
    /\ cfsPc = "start"
    /\ LET c == create_folder_structure(destDirs, cfsCategories)
       IN  /\ destDirs' = c.dirs
           /\ cfsFirst' = CfsOutcome(destDirs, c)
    /\ cfsPc' = "once"
    /\ UNCHANGED <<cfsCategories, cfsSecond>>
    /\ UNCHANGED <<srcExists, srcFiles, destExists, rootExists, destFiles,
                   mainVars, workerVars, counterVars, histVars,
                   processing_queue, not_found_files>>
    /\ UNCHANGED <<extVars, fdVars, nmVars, imgVars, sumVars, taskVars>>

C_Second ==
    /\ cfsPc = "once"
    /\ LET c == create_folder_structure(destDirs, cfsCategories)
       IN  /\ destDirs' = c.dirs
           /\ cfsSecond' = CfsOutcome(destDirs, c)
    /\ cfsPc' = "twice"
    /\ UNCHANGED <<cfsCategories, cfsFirst>>
    /\ UNCHANGED <<srcExists, srcFiles, destExists, rootExists, destFiles,
                   mainVars, workerVars, counterVars, histVars,
                   processing_queue, not_found_files>>
    /\ UNCHANGED <<extVars, fdVars, nmVars, imgVars, sumVars, taskVars>>

NextCFS == C_First \/ C_Second

SpecCFS == InitCFS /\ [][NextCFS]_vars

\* C15: when create_folder_structure has returned a path, a second call
\* with the same categories returns the same path, raises nothing and makes
\* no directory.
C15_SecondCallCreatesNothing ==
    cfsPc = "twice" /\ ~cfsFirst.raised =>
        /\ ~cfsSecond.raised
        /\ cfsSecond.path = cfsFirst.path
        /\ cfsSecond.created = {}

\* The first call made two nested directories, the second none.
C15_Witness ==
    /\ cfsPc = "twice"
    /\ ~cfsFirst.raised
    /\ Cardinality(cfsFirst.created) = 2
    /\ Len(cfsFirst.path) = 2
    /\ cfsSecond.path = cfsFirst.path


(***************************************************************************)
(* process_single_file, step by step, in workers that run side by side     *)
(* (specification SpecTask).  Every worker holds the filename it took from *)
(* the queue; the steps are the lookup with its store into the ledger, the *)
(* lock around the store of an invalid filename, each existence test and   *)
(* each os.makedirs of create_folder_structure, the move and the summary.  *)
(***************************************************************************)
\* The answer has not been asked for yet.
NoResponse == [kind |-> "none"]

\* The filenames the listing of process_files lets through.
CompressedPool == {f \in SourcePool : IsCompressed(f)}

\* The output trees a task may find.
TaskTrees == { {<<>>}, {<<>>, << <<"A">> >>} }

InitTask ==
    /\ FDIdle
    /\ NMIdle /\ ImgIdle /\ SumIdle /\ CFSIdle /\ MergeIdle /\ PassIdle
    /\ srcExists = TRUE
    /\ destExists = TRUE
    /\ rootExists = TRUE
    /\ destDirs \in TaskTrees
    /\ destFiles = {}
    /\ max_workers = MaxWorkers
    /\ threads = 1..max_workers
    /\ wfile \in {q \in [1..max_workers -> CompressedPool] :
                     \A v, w \in 1..max_workers : q[v] = q[w] => v = w}
    /\ srcFiles = {wfile[w] : w \in 1..max_workers}
    /\ compressed_files = <<>>
    /\ total_files = 0
    /\ processing_queue = <<>>
    /\ mainPc = "join"
    /\ joined = 0
    /\ enqueued = 0
    /\ wpc = [w \in 1..max_workers |-> "process"]
    /\ wtmp = [w \in 1..max_workers |-> 0]
    /\ wdetails = [w \in 1..max_workers |-> NoDetails]
    /\ wdest = [w \in 1..max_workers |-> <<>>]
    /\ processed_count = 0
    /\ counter_lock = Free
    /\ not_found_files = {}
    /\ calls = [f \in SourcePool |-> 0]
    /\ handed = {}
    /\ moved = {}
    /\ rootSummaryLog = <<>>
    /\ ledgerLog = <<>>
    /\ raised = {}
    /\ ledgerStepDone = FALSE
    /\ not_found_lock = Free
    /\ wresponse = [w \in 1..max_workers |-> NoResponse]
    /\ wpath = [w \in 1..max_workers |-> <<>>]
    /\ wrest = [w \in 1..max_workers |-> <<>>]
    /\ ledgerWrites = {}

\* A store into not_found_files, and whether its thread held the lock.
LedgerWrite(w, key) ==
    [by |-> w, key |-> key, locked |-> not_found_lock = w]

\* Where create_folder_structure goes on after a segment.
PcAfterSegment(rest) == IF rest = <<>> THEN "move" ELSE "cfs"

\* The answers on which get_model_details stores into not_found_files.
StoresFailure(response) ==
    response.kind # "model" \/ CategoriesOf(response) = <<>>

\* extract_file_id, and for a valid name get_model_details with its stores
\* into the ledger (lines 859, 875, 901).
T_Begin(w) ==
    /\ w \in threads
    /\ wpc[w] = "process"
    /\ calls' = [calls EXCEPT ![wfile[w]] = @ + 1]
    /\ LET file_id == extract_file_id(wfile[w])
       IN  IF file_id = None
           THEN /\ wpc' = [wpc EXCEPT ![w] = "nf_lock"]
                /\ UNCHANGED <<not_found_files, ledgerWrites, wresponse,
                               wdetails, wrest>>
           ELSE \E response \in LookupResponses :
                LET r == get_model_details(not_found_files, file_id, response)
                IN  /\ wresponse' = [wresponse EXCEPT ![w] = response]
                    /\ not_found_files' = r.ledger
                    /\ ledgerWrites' =
                           IF StoresFailure(response)
                           THEN ledgerWrites \cup {LedgerWrite(w, file_id)}
                           ELSE ledgerWrites
                    /\ wdetails' = [wdetails EXCEPT ![w] = r.details]
                    /\ wrest' = [wrest EXCEPT ![w] = r.details.categories]
                    /\ wpc' = [wpc EXCEPT ![w] =
                                  IF r.details.found THEN "cfs" ELSE "done"]
    /\ UNCHANGED <<fsVars, mainVars, wfile, wtmp, wdest, counterVars, handed,
                   moved, rootSummaryLog, ledgerLog, raised, ledgerStepDone,
                   processing_queue>>
    /\ UNCHANGED <<not_found_lock, wpath>>
    /\ UNCHANGED <<extVars, fdVars, nmVars, imgVars, sumVars, cfsVars>>

\* requests.post(self.api_url, json=payload, headers=headers) is called
\* without a timeout: when the service never answers, the call never returns
\* and never raises, and the thread stays in it.
T_Hang(w) ==
    /\ w \in threads
    /\ wpc[w] = "process"
    /\ extract_file_id(wfile[w]) # None
    /\ calls' = [calls EXCEPT ![wfile[w]] = @ + 1]
    /\ wpc' = [wpc EXCEPT ![w] = "waiting"]
    /\ UNCHANGED <<fsVars, mainVars, wfile, wtmp, wdetails, wdest, counterVars,
                   handed, moved, rootSummaryLog, ledgerLog, raised,
                   ledgerStepDone, processing_queue, not_found_files>>
    /\ UNCHANGED taskVars
    /\ UNCHANGED <<extVars, fdVars, nmVars, imgVars, sumVars, cfsVars>>

\* with self.not_found_lock: entering waits until the lock is free.
T_Lock(w) ==
    /\ w \in threads
    /\ wpc[w] = "nf_lock"
    /\ CanAcquire(not_found_lock)
    /\ not_found_lock' = w
    /\ wpc' = [wpc EXCEPT ![w] = "nf_store"]
    /\ UNCHANGED <<fsVars, mainVars, wfile, wtmp, wdetails, wdest, counterVars,
                   histVars, processing_queue, not_found_files>>
    /\ UNCHANGED <<wresponse, wpath, wrest, ledgerWrites>>
    /\ UNCHANGED <<extVars, fdVars, nmVars, imgVars, sumVars, cfsVars>>

\* self.not_found_files[filename] = "Invalid filename format"; the lock is
\* left and process_single_file returns.
T_Store(w) ==
    /\ w \in threads
    /\ wpc[w] = "nf_store"
    /\ not_found_files' =
           DictPut(not_found_files, wfile[w], "Invalid filename format")
    /\ ledgerWrites' = ledgerWrites \cup {LedgerWrite(w, wfile[w])}
    /\ not_found_lock' = Free
    /\ wpc' = [wpc EXCEPT ![w] = "done"]
    /\ UNCHANGED <<fsVars, mainVars, wfile, wtmp, wdetails, wdest, counterVars,
                   histVars, processing_queue>>
    /\ UNCHANGED <<wresponse, wpath, wrest>>
    /\ UNCHANGED <<extVars, fdVars, nmVars, imgVars, sumVars, cfsVars>>

\* One turn of create_folder_structure's loop up to the existence test; a
\* null title makes re.sub raise.
T_Check(w) ==
    /\ w \in threads
    /\ wpc[w] = "cfs"
    /\ IF Head(wrest[w]) = None
       THEN /\ raised' = raised \cup {wfile[w]}
            /\ wpc' = [wpc EXCEPT ![w] = "done"]
            /\ UNCHANGED <<wpath, wrest>>
       ELSE LET current_path ==
                    PathJoin(wpath[w], CleanCategory(Head(wrest[w])))
            IN  /\ wpath' = [wpath EXCEPT ![w] = current_path]
                /\ UNCHANGED raised
                /\ IF Missing(destDirs, current_path)
                   THEN /\ wpc' = [wpc EXCEPT ![w] = "mkdir"]
                        /\ UNCHANGED wrest
                   ELSE /\ wrest' = [wrest EXCEPT ![w] = Tail(@)]
                        /\ wpc' = [wpc EXCEPT ![w] =
                                      PcAfterSegment(Tail(wrest[w]))]
    /\ UNCHANGED <<fsVars, mainVars, wfile, wtmp, wdetails, wdest, counterVars,
                   calls, handed, moved, rootSummaryLog, ledgerLog,
                   ledgerStepDone, processing_queue, not_found_files>>
    /\ UNCHANGED <<not_found_lock, wresponse, ledgerWrites>>
    /\ UNCHANGED <<extVars, fdVars, nmVars, imgVars, sumVars, cfsVars>>

\* os.makedirs(current_path) after the test found the path missing; the
\* FileExistsError leaves process_single_file for the worker's except clause.
T_Mkdir(w) ==
    /\ w \in threads
    /\ wpc[w] = "mkdir"
    /\ LET made == makedirs(destDirs, wpath[w])
       IN  /\ destDirs' = made.dirs
           /\ IF made.raised
              THEN /\ raised' = raised \cup {wfile[w]}
                   /\ wpc' = [wpc EXCEPT ![w] = "done"]
                   /\ UNCHANGED wrest
              ELSE /\ wrest' = [wrest EXCEPT ![w] = Tail(@)]
                   /\ wpc' = [wpc EXCEPT ![w] = PcAfterSegment(Tail(wrest[w]))]
                   /\ UNCHANGED raised
    /\ UNCHANGED <<srcExists, srcFiles, destExists, rootExists, destFiles,
                   mainVars, wfile, wtmp, wdetails, wdest, counterVars,
                   calls, handed, moved, rootSummaryLog, ledgerLog,
                   ledgerStepDone, processing_queue, not_found_files>>
    /\ UNCHANGED <<not_found_lock, wresponse, wpath, ledgerWrites>>
    /\ UNCHANGED <<extVars, fdVars, nmVars, imgVars, sumVars, cfsVars>>

\* shutil.move(source_path, dest_path) in its try.
T_Move(w) ==
    /\ w \in threads
    /\ wpc[w] = "move"
    /\ \E io_error \in BOOLEAN :
           IF io_error
           THEN /\ wpc' = [wpc EXCEPT ![w] = "done"]
                /\ UNCHANGED <<srcFiles, destFiles, moved, wdest>>
           ELSE /\ srcFiles' = srcFiles \ {wfile[w]}
                /\ destFiles' = MoveArchive(destFiles, wpath[w], wfile[w])
                /\ moved' = moved \cup {wfile[w]}
                /\ wdest' = [wdest EXCEPT ![w] = wpath[w]]
                /\ wpc' = [wpc EXCEPT ![w] = "summary"]
    /\ UNCHANGED <<srcExists, destExists, rootExists, destDirs, mainVars,
                   wfile, wtmp, wdetails, counterVars, calls, handed,
                   rootSummaryLog, ledgerLog, raised, ledgerStepDone,
                   processing_queue, not_found_files>>
    /\ UNCHANGED taskVars
    /\ UNCHANGED <<extVars, fdVars, nmVars, imgVars, sumVars, cfsVars>>

\* update_folder_summary(destination_folder); the preview image steps
\* before it touch image files only.
T_Summary(w) ==
    /\ w \in threads
    /\ wpc[w] = "summary"
    /\ destFiles' = update_folder_summary(destDirs, destFiles, wdest[w])
    /\ wpc' = [wpc EXCEPT ![w] = "done"]
    /\ UNCHANGED <<srcExists, srcFiles, destExists, rootExists, destDirs,
                   mainVars, wfile, wtmp, wdetails, wdest, counterVars,
                   histVars, processing_queue, not_found_files>>
    /\ UNCHANGED taskVars
    /\ UNCHANGED <<extVars, fdVars, nmVars, imgVars, sumVars, cfsVars>>

NextTask ==
    \E w \in 1..MaxWorkers :
        \/ T_Begin(w)
        \/ T_Hang(w)
        \/ T_Lock(w)
        \/ T_Store(w)
        \/ T_Check(w)
        \/ T_Mkdir(w)
        \/ T_Move(w)
        \/ T_Summary(w)

SpecTask == InitTask /\ [][NextTask]_vars


(***************************************************************************)
(* Properties of process_single_file (specification SpecTask).             *)
(***************************************************************************)
\* The answer has categories, all of them strings.
HasCategories(response) ==
    /\ response.kind = "model"
    /\ CategoriesOf(response) # <<>>
    /\ \A i \in DOMAIN CategoriesOf(response) : CategoriesOf(response)[i] # None

\* C16: a lookup result with categories but without a matching preview
\* image is a soft failure: the task goes on from the lookup to the
\* placement of the archive (create_folder_structure and the move).
C16_NoImageStillPlaced ==
    [][\A w \in threads :
           /\ wpc[w] = "process"
           /\ wpc'[w] # "process"
           /\ HasCategories(wresponse'[w])
           /\ ~wresponse'[w].image
           => wpc'[w] = "cfs"]_vars

\* C18: create_folder_structure returns its leaf path without raising in
\* every task whose categories are strings, whatever another worker does to
\* the same segments between the existence test and os.makedirs.
C18_NoRaiseOnSharedSegment ==
    \A w \in threads : HasCategories(wresponse[w]) => wfile[w] \notin raised

\* C19: every store into not_found_files made by a worker is made while
\* that worker holds not_found_lock.
C19_LedgerWritesLocked ==
    \A e \in ledgerWrites : e.locked


(***************************************************************************)
(* Further properties of the threaded run (specification Spec).            *)
(***************************************************************************)
\* C17: when the source directory or the destination directory does not
\* exist as process_files starts, the run aborts: no thread is started,
\* nothing is put on the queue, no directory is made and no file is moved.
C17_AbortsWithoutSideEffects ==
    [][mainPc = "start" /\ (~srcExists \/ ~destExists) =>
           /\ mainPc' = "aborted"
           /\ threads' = {}
           /\ processing_queue' = <<>>
           /\ destExists' = destExists
           /\ rootExists' = rootExists
           /\ destDirs' = destDirs
           /\ destFiles' = destFiles
           /\ srcFiles' = srcFiles]_vars


\* The queue holds sentinels only.
OnlySentinels(q) == \A i \in DOMAIN q : q[i] = None

Exited == {w \in threads : wpc[w] = "exit"}

C20_Queue ==
    /\ SentinelsPut <= max_workers
    /\ mainPc \in {"join", "ledger", "summary", "done"} =>
           enqueued = total_files + max_workers
    /\ \A i, j \in DOMAIN processing_queue :
           i < j /\ processing_queue[i] = None => processing_queue[j] = None
    /\ Cardinality(Exited) + CountOf(processing_queue, None) = SentinelsPut
    /\ threads # {} /\ Exited = threads => processing_queue = <<>>

C20_Steps ==
    /\ Len(processing_queue') > Len(processing_queue)
           /\ processing_queue'[Len(processing_queue')] = None
       => /\ enqueued >= total_files
          /\ processing_queue' = Append(processing_queue, None)
    /\ \A w \in threads :
           /\ wpc[w] = "exit" => wpc'[w] = "exit"
           /\ wpc[w] # "exit" /\ wpc'[w] = "exit" =>
                  /\ OnlySentinels(processing_queue)
                  /\ processing_queue # <<>>
                  /\ processing_queue' = Tail(processing_queue)
                  /\ \A v \in threads \ {w} : wpc'[v] = wpc[v]

\* C20: process_files puts exactly W sentinels, all of them after the N
\* filenames; a worker that takes a sentinel exits, stays exited and puts
\* nothing back, so every worker takes exactly one; a sentinel is taken only
\* when no filename is left in the queue; the queue is empty once all workers
\* have exited.
C20_Sentinels ==
    /\ []C20_Queue
    /\ [][C20_Steps]_vars

\* Two workers, at least two filenames, the run is over.
C20_Witness ==
    /\ mainPc = "done"
    /\ max_workers = 2
    /\ total_files >= 2
    /\ Exited = threads
    /\ enqueued = total_files + 2
    /\ processing_queue = <<>>


(***************************************************************************)
(* The threaded run with its scheduling (specification SpecLive).          *)
(***************************************************************************)
\* The interpreter keeps running threads that can run: a step is taken
\* whenever some thread can take one.  Every schedule that is fair to each
\* thread satisfies this.
Fairness == WF_vars(Next)

MaxLiveFiles == 2

\* The runs whose termination is examined: any worker count, up to
\* MaxLiveFiles files, an output tree that exists and is empty.
InitLive ==
    /\ Init
    /\ Cardinality(srcFiles) <= MaxLiveFiles
    /\ rootExists
    /\ destFiles = {}

SpecLive == InitLive /\ [][Next]_vars /\ Fairness

Returned == mainPc \in {"done", "aborted"}

\* C21: every started worker eventually takes a sentinel and exits, so all
\* joins complete and process_files eventually returns.
C21_Terminates ==
    <>(Returned /\ \A w \in threads : wpc[w] = "exit")

\* A run of two workers over two filenames that has returned.
C21_Witness ==
    /\ mainPc = "done"
    /\ max_workers = 2
    /\ total_files = 2
    /\ joined = 2
    /\ \A w \in threads : wpc[w] = "exit"



(***************************************************************************)
(* The progress counter and the tasks that have finished (Spec).           *)
(***************************************************************************)
\* The workers that are inside process_single_file.
InPipeline == {w \in threads : wpc[w] \in {"process", "place", "summary"}}

\* The filenames whose process_single_file call has returned or raised: the
\* filenames handed to the progress report, less those still in the call.
Completed == {h.file : h \in handed} \ {wfile[w] : w \in InPipeline}

\* C22: the counter is incremented and the progress report issued only after
\* the task's pipeline has finished, so the counter never exceeds the number
\* of completed tasks.
C22_CountsCompletedOnly == processed_count <= Cardinality(Completed)


(***************************************************************************)
(* The tasks with their scheduling (specification SpecTaskLive).           *)
(***************************************************************************)
\* A thread that can take a step is eventually run.
SpecTaskLive == SpecTask /\ WF_vars(NextTask)

\* C23: every network call of a task has a bounded wait, so every worker
\* eventually leaves process_single_file, whatever the service does.
C23_NoWorkerBlocked == <>(\A w \in threads : wpc[w] = "done")


(***************************************************************************)
(* What handle_duplicate_images leaves in the folder (SpecImg).            *)
(***************************************************************************)
\* The readable images of the model that the folder holds.
ReadableOfModel ==
    {f \in destFiles :
        /\ f.dir = ImgFolder
        /\ IsImageName(f.name)
        /\ StartsWith(f.name, ModelNumber(ImgFileId))
        /\ Opens(f)}

\* C24: after handle_duplicate_images for a downloaded preview that opens,
\* exactly one readable image of the model remains in the folder and no
\* candidate, old or downloaded, is strictly greater under (resolution, byte
\* size): every candidate that is not retained has been deleted.
C24_OnlyBestRemains ==
    imgPc = "done" /\ Incoming.data.readable =>
        /\ Cardinality(ReadableOfModel) = 1
        /\ \A r \in ReadableOfModel :
               \A c \in Candidates \cup {Incoming} : ~LexGreater(c, r)


(***************************************************************************)
(* The two update_folder_summary of the repository on the same folder      *)
(* (specification SpecOrg): the one of sky_organizer_gui.py, then the one  *)
(* of org.py.                                                              *)
(***************************************************************************)
\* org.py: for root, dirs, files in os.walk(folder_path): every directory
\* below folder_path adds to total_subfolders, and every file of every
\* visited directory, folder_summary.json apart, to the counts.
OrgFolderSummary(dirs, files, folder_path) ==
    LET roots == {d \in dirs : IsPrefix(folder_path, d)}
        walked_dirs == roots \ {folder_path}
        walked_files ==
            {f \in files : f.dir \in roots /\ f.name # SummaryName}
        exts == {Lower(splitext(f.name)[2]) : f \in walked_files}
    IN  [kind |-> "summary",
         total_files |-> Cardinality(walked_files),
         total_subfolders |-> Cardinality(walked_dirs),
         file_types |->
            [e \in exts |->
                Cardinality({f \in walked_files :
                                Lower(splitext(f.name)[2]) = e})]]

\* org.py: the sidecar is overwritten with the new summary.
org_update_folder_summary(dirs, files, folder_path) ==
    WriteFile(files, folder_path, SummaryName,
              OrgFolderSummary(dirs, files, folder_path))

\* SkyFileOrganizer.update_folder_summary of sky_organizer_gui.py.
O_Threaded ==
    /\ sumPc = "start"
    /\ \E folder_path \in destDirs :
           /\ sumFolder' = folder_path
           /\ sumFirst' = FolderSummary(destDirs, destFiles, folder_path)
           /\ destFiles' = update_folder_summary(destDirs, destFiles, folder_path)
    /\ sumPc' = "threaded"
    /\ UNCHANGED sumSecond
    /\ UNCHANGED <<srcExists, srcFiles, destExists, rootExists, destDirs,
                   mainVars, workerVars, counterVars, histVars,
                   processing_queue, not_found_files>>
    /\ UNCHANGED <<extVars, fdVars, nmVars, imgVars, cfsVars, taskVars>>

\* update_folder_summary of org.py on the same folder; the tree differs from
\* the one of the first call in the sidecar only, which neither call counts.
O_Org ==
    /\ sumPc = "threaded"
    /\ sumSecond' = OrgFolderSummary(destDirs, destFiles, sumFolder)
    /\ destFiles' = org_update_folder_summary(destDirs, destFiles, sumFolder)
    /\ sumPc' = "org"
    /\ UNCHANGED <<sumFolder, sumFirst>>
    /\ UNCHANGED <<srcExists, srcFiles, destExists, rootExists, destDirs,
                   mainVars, workerVars, counterVars, histVars,
                   processing_queue, not_found_files>>
    /\ UNCHANGED <<extVars, fdVars, nmVars, imgVars, cfsVars, taskVars>>

NextOrg == O_Threaded \/ O_Org

SpecOrg == InitSum /\ [][NextOrg]_vars

\* C25: the update_folder_summary of org.py counts the immediate children
\* only, as the one of sky_organizer_gui.py does: on every tree the two
\* report the same total_files, total_subfolders and file_types.
C25_SameCounts ==
    sumPc = "org" => sumSecond = sumFirst


(***************************************************************************)
(* The folder summaries after the run (Spec).                              *)
(***************************************************************************)
\* The category folders into which this run moved a compressed file.
ReceivedFile ==
    {f.dir : f \in {g \in destFiles :
                       g.data = [kind |-> "archive", from |-> "new"]}}
        \ {<<>>}

\* folder_summary.json of the folder holds the counts of what the folder
\* holds now.
SummaryIsCurrent(folder) ==
    \E s \in FileAt(destFiles, folder, SummaryName) :
        s.data = FolderSummary(destDirs, destFiles, folder)

\* C26: once process_files has returned, the folder_summary.json of every
\* category folder that received a file of the run matches the folder's
\* immediate contents (files and subfolders), whatever the workers' order.
C26_NoStaleSummary ==
    mainPc = "done" => \A folder \in ReceivedFile : SummaryIsCurrent(folder)


(***************************************************************************)
(* fix_duplicates and the files it was given (SpecFD).                     *)
(***************************************************************************)
\* The files of the start that are still on the disk, under any path.
Surviving(files) == {f.orig : f \in files}

\* C27: fix_duplicates never deletes or overwrites a file: no step changes
\* the number of files, and every file of the start stays on the disk, at its
\* path, renamed, or under Duplicates, also when a move into Duplicates has
\* failed and the kept file is renamed afterwards.
C27_NoFileLost ==
    [][/\ Cardinality(fdFiles') = Cardinality(fdFiles)
       /\ Surviving(fdFiles') = Surviving(fdFiles)]_vars


(***************************************************************************)
(* merge_folders: the pre-organised 3ds_models tree of the source is       *)
(* moved or copied into the one of the destination (specification          *)
(* SpecMerge).  Paths are relative to the two 3ds_models folders.          *)
(***************************************************************************)
MaxMergeFiles == 2

MaxDestFiles == 1

MergeDirPool == { << <<"A">> >>, << <<"A">>, <<"B">> >> }

\* The directory trees a 3ds_models folder may be.
MergeTrees ==
    {D \cup {<<>>} :
        D \in {E \in SUBSET MergeDirPool :
                  \A d \in E : Prefixes(d) \subseteq E \cup {<<>>}}}

MergeNames ==
    { <<"1", ".", "a", ".", "z", "i", "p">>,
      <<"1", ".", "a", ".", "j", "p", "g">>,
      SummaryName }

\* A file of a tree; the two trees' files differ in content.
MergeFile(dir, name, from) ==
    [dir |-> dir, name |-> name,
     data |-> IF name = SummaryName THEN StaleSummary
              ELSE [kind |-> "file", from |-> from]]

\* Where the destination may hold a file: in its folders, and a regular file
\* named A in its root when it has no folder of that name.
DestSlots(dirs) ==
    (dirs \X MergeNames)
        \cup (IF << <<"A">> >> \in dirs THEN {} ELSE {<< <<>>, <<"A">> >>})

InitMerge ==
    /\ RunIdle
    /\ FDIdle
    /\ NMIdle /\ ImgIdle /\ SumIdle /\ CFSIdle /\ TaskIdle /\ PassIdle
    /\ operation \in {"move", "copy"}
    /\ sourceDirs \in MergeTrees \cup {{}}
    /\ \E P \in SUBSET (sourceDirs \X MergeNames) :
           /\ Cardinality(P) <= MaxMergeFiles
           /\ sourceFiles = {MergeFile(p[1], p[2], "source") : p \in P}
    /\ destDirs \in MergeTrees
    /\ \E P \in SUBSET DestSlots(destDirs) :
           /\ Cardinality(P) <= MaxDestFiles
           /\ destFiles = {MergeFile(p[1], p[2], "dest") : p \in P}
    /\ mergePc = "start"
    /\ walkTodo = <<>>
    /\ sourceAtStart = sourceFiles
    /\ tried = {}

\* The path is a regular file of the tree.
IsFilePath(files, path) == \E f \in files : Append(f.dir, f.name) = path

\* os.path.exists(path)
PathExists(dirs, files, path) == path \in dirs \/ IsFilePath(files, path)

\* os.walk(source_models_dir): a directory is yielded before the
\* directories below it, a subtree in one piece.
TopDown(dirs) ==
    {q \in Orders(dirs) : IsWalk([i \in DOMAIN q |-> [dir |-> q[i]]])}

\* if not os.path.exists(dest_path): os.makedirs(dest_path); makedirs raises
\* when a component of the path is a regular file.
MakeDestPath(dirs, files, dest_path) ==
    IF PathExists(dirs, files, dest_path)
    THEN [dirs |-> dirs, raised |-> FALSE]
    ELSE IF \E p \in Prefixes(dest_path) : IsFilePath(files, p)
    THEN [dirs |-> dirs, raised |-> TRUE]
    ELSE [dirs |-> dirs \cup Prefixes(dest_path), raised |-> FALSE]

\* get_directories and the tests before the walk; without a 3ds_models
\* folder in the source the call returns.
M_StartMerge ==
    /\ mergePc = "start"
    /\ IF sourceDirs = {}
       THEN /\ mergePc' = "returned"
            /\ UNCHANGED walkTodo
       ELSE /\ walkTodo' \in TopDown(sourceDirs)
            /\ mergePc' = "walk"
    /\ UNCHANGED <<operation, sourceDirs, sourceFiles, sourceAtStart, tried>>
    /\ UNCHANGED <<pfVars, fdVars, nmVars, imgVars, sumVars, cfsVars,
                   taskVars, passVars>>

\* Where the call stands after the walk.
AfterWalk == IF operation = "move" THEN "cleanup" ELSE "summaries"

\* One turn of the walk: the destination directory, the source's summary
\* file, the files of the directory one after the other, and
\* update_folder_summary(dest_path), whose os.listdir raises out of
\* merge_folders when dest_path is a regular file.
M_Visit ==
    /\ mergePc = "walk"
    /\ LET root == Head(walkTodo)
           made == MakeDestPath(destDirs, destFiles, root)
           summary == FileAt(sourceFiles, root, SummaryName)
           files == {f \in sourceFiles : f.dir = root /\ f.name # SummaryName}
           free == {f \in files :
                       ~PathExists(made.dirs, destFiles, Append(root, f.name))}
       IN  IF made.raised
           THEN /\ mergePc' = "raised"
                /\ UNCHANGED <<sourceFiles, destDirs, destFiles, tried,
                               walkTodo>>
           ELSE \E remove_error \in (IF summary = {} THEN {FALSE} ELSE BOOLEAN),
                   failing \in SUBSET free :
                LET transferred ==
                        IF root \in made.dirs THEN free \ failing ELSE {}
                    left == IF remove_error THEN sourceFiles
                            ELSE sourceFiles \ summary
                IN  /\ sourceFiles' =
                           IF operation = "move" THEN left \ transferred
                           ELSE left
                    /\ destDirs' = made.dirs
                    /\ tried' = tried \cup {PathOf(f) : f \in files}
                    /\ IF root \in made.dirs
                       THEN /\ destFiles' =
                                   update_folder_summary(
                                       made.dirs, destFiles \cup transferred,
                                       root)
                            /\ walkTodo' = Tail(walkTodo)
                            /\ mergePc' = IF Tail(walkTodo) = <<>>
                                          THEN AfterWalk ELSE "walk"
                       ELSE /\ mergePc' = "raised"
                            /\ UNCHANGED <<destFiles, walkTodo>>
    /\ UNCHANGED <<operation, sourceDirs, sourceAtStart>>
    /\ UNCHANGED <<srcExists, srcFiles, destExists, rootExists, mainVars,
                   workerVars, counterVars, histVars, processing_queue,
                   not_found_files>>
    /\ UNCHANGED <<fdVars, nmVars, imgVars, sumVars, cfsVars, taskVars,
                   passVars>>

\* os.rmdir(dir_path): OSError, passed over, unless the directory is empty.
rmdir(dirs, files, dir_path) ==
    IF \/ \E f \in files : f.dir = dir_path
       \/ \E d \in dirs : d # dir_path /\ IsPrefix(dir_path, d)
    THEN dirs
    ELSE dirs \ {dir_path}

\* cleanup_empty_dirs: os.walk(directory, topdown=False) and os.rmdir of
\* every directory, the deepest first, the root at the end.
RECURSIVE RmdirBottomUp(_, _, _)
RmdirBottomUp(dirs, files, top_down) ==
    IF top_down = <<>> THEN dirs
    ELSE RmdirBottomUp(rmdir(dirs, files, top_down[Len(top_down)]), files,
                       SubSeq(top_down, 1, Len(top_down) - 1))

M_Cleanup ==
    /\ mergePc = "cleanup"
    /\ \E q \in TopDown(sourceDirs) :
           sourceDirs' = RmdirBottomUp(sourceDirs, sourceFiles, q)
    /\ mergePc' = "summaries"
    /\ UNCHANGED <<operation, sourceFiles, walkTodo, sourceAtStart, tried>>
    /\ UNCHANGED <<pfVars, fdVars, nmVars, imgVars, sumVars, cfsVars,
                   taskVars, passVars>>

\* update_all_folder_summaries(dest_models_dir): every directory of the
\* destination tree gets its summary; a summary counts no summary file.
M_Summaries ==
    /\ mergePc = "summaries"
    /\ destFiles' =
           {f \in destFiles : f.name # SummaryName}
               \cup {[dir |-> d, name |-> SummaryName,
                      data |-> FolderSummary(destDirs, destFiles, d)] :
                        d \in destDirs}
    /\ mergePc' = "done"
    /\ UNCHANGED <<operation, sourceDirs, sourceFiles, walkTodo, sourceAtStart,
                   tried>>
    /\ UNCHANGED <<srcExists, srcFiles, destExists, rootExists, destDirs,
                   mainVars, workerVars, counterVars, histVars,
                   processing_queue, not_found_files>>
    /\ UNCHANGED <<fdVars, nmVars, imgVars, sumVars, cfsVars, taskVars,
                   passVars>>

NextMerge == M_StartMerge \/ M_Visit \/ M_Cleanup \/ M_Summaries

SpecMerge == InitMerge /\ [][NextMerge]_vars

\* The files of the source tree that merge_folders has to transfer.
Transferable == {f \in sourceAtStart : f.name # SummaryName}

\* Every file to transfer is in the source tree or, with its content, at the
\* same relative path of the destination tree.
C28_NoLoss == \A f \in Transferable : f \in sourceFiles \/ f \in destFiles

\* When the call is over, every file to transfer has had its turn.
C28_AllTried ==
    mergePc \in {"done", "raised"} =>
        \A f \in Transferable : PathOf(f) \in tried

\* The clean-up removes no file, and only directories that hold nothing.
C28_CleanupStep ==
    mergePc = "cleanup" =>
        /\ sourceFiles' = sourceFiles
        /\ \A d \in sourceDirs \ sourceDirs' :
               ~\E f \in sourceFiles : IsPrefix(d, f.dir)

\* C28: merge_folders loses no file (each file of the source tree but
\* folder_summary.json is afterwards in the destination at its relative path
\* or still in the source); a collision or a failed transfer does not keep
\* the following files from their transfer; the clean-up after a move
\* removes only empty directories.
C28_MergeLosesNothing ==
    /\ []C28_NoLoss
    /\ []C28_AllTried
    /\ [][C28_CleanupStep]_vars

\* C29: merge_folders with operation "copy" leaves the source tree as it
\* is: no step removes, moves or changes a file or directory of it.
C29_CopyKeepsSource ==
    [][operation = "copy" /\ mergePc # "idle" =>
           sourceDirs' = sourceDirs /\ sourceFiles' = sourceFiles]_vars


(***************************************************************************)
(* fix_duplicates called a second time on the same source directory, the   *)
(* Duplicates folder of the first call included in the walk                *)
(* (specification SpecAgain).                                              *)
(***************************************************************************)
\* The first call has returned and fix_duplicates is called again.
FD_Again ==
    /\ fdPc = "done"
    /\ fdPass = 0
    /\ fdPass' = 1
    /\ fdFirstFiles' = fdFiles
    /\ fdFirstGroups' = Len(fdReport)
    /\ fdPc' = "scan"
    /\ fdGroups' = <<>>
    /\ fdIdx' = 0
    /\ UNCHANGED <<posix, fdFiles, fdReport>>
    /\ UNCHANGED <<pfVars, nmVars, imgVars, sumVars, cfsVars, taskVars, mgVars>>

NextAgain == FD_Scan \/ FD_Group \/ FD_Again

SpecAgain == InitFD /\ [][NextAgain]_vars

\* Every move and every rename of the first call succeeded.
FirstPassClean ==
    \A i \in 1..fdFirstGroups :
        fdReport[i].failed = {} /\ fdReport[i].rename # "raised"

\* C30: a second fix_duplicates directly after a first one in which every
\* move and rename succeeded changes nothing: at every moment of the second
\* call the files (paths, sizes, contents) are those the first call left,
\* whatever the order of the walk.
C30_SecondPassChangesNothing ==
    fdPass = 1 /\ FirstPassClean => fdFiles = fdFirstFiles

============================================================================
